---------------------------- MODULE Spec2Model ----------------------------
(***************************************************************************)
(* A model of 21black: the blackjack round engine (game.js) and the        *)
(* session driver that sequences it (index.js, main).                      *)
(*                                                                         *)
(* Two specifications are given.                                           *)
(*   Spec    the session: main()'s loop, one action per engine call or     *)
(*           key press, from the welcome screen on.                        *)
(*   FnSpec  the engine's functions applied to arbitrary round states      *)
(*           drawn from bounded sets, the way the unit tests call them.    *)
(*                                                                         *)
(* JavaScript values are modelled as follows.  A card is a record          *)
(* [suit, rank, value]; an array is a sequence whose LAST element is the   *)
(* top of the deck (Array.pop); state.splitHands = undefined is the empty  *)
(* sequence; state.result = null is the record NoResult; a JavaScript      *)
(* number is a record [k, v] (see Number values below).                    *)
(***************************************************************************)
EXTENDS Integers, Sequences, FiniteSets, TLC

VARIABLES
    state,        \* the RoundState value the caller holds
    pc,           \* main()'s position ("fn" under FnSpec)
    lastBet,      \* main()'s lastBet
    betError,     \* main()'s betError (the message of the last rejection)
    op,           \* the last operation applied
    arg,          \* the argument of the last operation applied, when it has one
    ret,          \* what the last engine function returned
    chipsBefore   \* chips held just before the current round's bet was placed

vars == <<state, pc, lastBet, betError, op, arg, ret, chipsBefore>>

(***************************************************************************)
(* Bounds of the model.                                                    *)
(***************************************************************************)
\* The session accepts a bet only while fewer hands than this were played.
MaxHands == 4
\* Math.random is a generator with a hidden seed; the seeds explored.
NumSeeds == 5
\* The longest hand handed to calculateHandTotal under FnSpec.
MaxHandLen == 5

(***************************************************************************)
(* Cards and the deck.                                                     *)
(***************************************************************************)
SUITS == <<"spades", "hearts", "diamonds", "clubs">>

RANKS == <<"2", "3", "4", "5", "6", "7", "8", "9", "10", "J", "Q", "K", "A">>

\* parseInt(rank, 10) on the number ranks.
ParseInt(rank) ==
    CASE rank = "2" -> 2 [] rank = "3" -> 3 [] rank = "4" -> 4
      [] rank = "5" -> 5 [] rank = "6" -> 6 [] rank = "7" -> 7
      [] rank = "8" -> 8 [] rank = "9" -> 9 [] rank = "10" -> 10

\* CardValue with the Ace at 1.
CardValue_AceLow(rank) ==
    IF rank = "A" THEN 1
    ELSE IF rank = "J" \/ rank = "Q" \/ rank = "K" THEN 10
    ELSE ParseInt(rank)

CardValue(rank) ==
    IF rank = "A" THEN 11
    ELSE IF rank = "J" \/ rank = "Q" \/ rank = "K" THEN 10
    ELSE ParseInt(rank)

Card(suit, rank) == [suit |-> suit, rank |-> rank, value |-> CardValue(rank)]

\* for (suit of SUITS) for (rank of RANKS) deck.push({suit, rank, value})
CreateDeck ==
    [i \in 1..(Len(SUITS) * Len(RANKS)) |->
        Card(SUITS[((i - 1) \div Len(RANKS)) + 1],
             RANKS[((i - 1) % Len(RANKS)) + 1])]

(***************************************************************************)
(* Math.random: a generator with a hidden state, modelled as a linear      *)
(* congruential generator.  A state x stands for the number                *)
(* x / RandomModulus, which lies in [0, 1).                                *)
(***************************************************************************)
RandomModulus == 65536
RandomMultiplier == 11585
RandomIncrement == 8249

RandomNext(x) == (RandomMultiplier * x + RandomIncrement) % RandomModulus

\* Math.floor(Math.random() * (i + 1)) when Math.random() returns x / RandomModulus.
RandomIndex(x, i) == (x * (i + 1)) \div RandomModulus

Seeds == 1..NumSeeds

\* Swap that only writes a[i]: a[i] = a[j].
Swap_Overwrites(a, i, j) == [a EXCEPT ![i + 1] = a[j + 1]]

\* [a[i], a[j]] = [a[j], a[i]] on 0-based indices.
Swap(a, i, j) == [a EXCEPT ![i + 1] = a[j + 1], ![j + 1] = a[i + 1]]

\* The loop of shuffleDeck: for (i = length - 1; i > 0; i--), x the state of
\* the generator before the draw.
RECURSIVE FisherYates(_, _, _)
FisherYates(shuffled, i, x) ==
    IF i > 0
    THEN LET drawn == RandomNext(x)
         IN  FisherYates(Swap(shuffled, i, RandomIndex(drawn, i)), i - 1, drawn)
    ELSE shuffled

ShuffleDeck(deck, seed) == FisherYates(deck, Len(deck) - 1, seed)

\* Array.pop: the element removed and the array left.
Top(deck) == deck[Len(deck)]
Pop(deck) == SubSeq(deck, 1, Len(deck) - 1)

(***************************************************************************)
(* Hand evaluation.                                                        *)
(***************************************************************************)
\* for (card of cards) total += card.value
RECURSIVE SumValues(_)
SumValues(cards) ==
    IF cards = <<>> THEN 0 ELSE cards[1].value + SumValues(Tail(cards))

\* for (card of cards) if (card.rank === 'A') aces++
RECURSIVE CountAces(_)
CountAces(cards) ==
    IF cards = <<>> THEN 0
    ELSE (IF cards[1].rank = "A" THEN 1 ELSE 0) + CountAces(Tail(cards))

\* Demote with the loop test total >= 21: an Ace of a 21 is demoted too.
RECURSIVE Demote_At21(_, _)
Demote_At21(total, aces) ==
    IF total >= 21 /\ aces > 0 THEN Demote_At21(total - 10, aces - 1)
    ELSE [total |-> total, soft |-> aces > 0]

\* while (total > 21 && aces > 0) { total -= 10; aces-- }
RECURSIVE Demote(_, _)
Demote(total, aces) ==
    IF total > 21 /\ aces > 0 THEN Demote(total - 10, aces - 1)
    ELSE [total |-> total, soft |-> aces > 0]

CalculateHandTotal(cards) == Demote(SumValues(cards), CountAces(cards))

\* IsBlackjack that takes any 21 for a natural.
IsBlackjack_AnyLength(hand) == CalculateHandTotal(hand).total = 21

IsBlackjack(hand) == Len(hand) = 2 /\ CalculateHandTotal(hand).total = 21

(***************************************************************************)
(* Number values.  A JavaScript number is [k |-> "int", v |-> n] for the   *)
(* integer n, [k |-> "frac", v |-> n] for n + 1/2, [k |-> "nan", v |-> 0]  *)
(* for NaN and [k |-> "inf", v |-> 1 or -1] for the two infinities.        *)
(***************************************************************************)
Int_(n) == [k |-> "int", v |-> n]
Frac(n) == [k |-> "frac", v |-> n]
NaN == [k |-> "nan", v |-> 0]
Infinity == [k |-> "inf", v |-> 1]

NumberIsInteger(a) == a.k = "int"
NumberIsFinite(a) == a.k = "int" \/ a.k = "frac"

\* Math.round taken as Math.floor: a half goes down.
MathRoundHalves_Floor(h) == h \div 2

\* Math.round(h / 2) for an integer h: the nearest integer, a half going up
\* (towards +Infinity).
MathRoundHalves(h) == (h + 1) \div 2

Max(a, b) == IF a >= b THEN a ELSE b
Min(a, b) == IF a <= b THEN a ELSE b

(***************************************************************************)
(* The round state.                                                        *)
(***************************************************************************)
NoResult == [outcome |-> "null", message |-> "", chipChange |-> 0]

Result(outcome, message, chipChange) ==
    [outcome |-> outcome, message |-> message, chipChange |-> chipChange]

CreateGameState ==
    [deck |-> <<>>,
     playerHand |-> <<>>,
     dealerHand |-> <<>>,
     chips |-> 1000,
     bet |-> 0,
     phase |-> "welcome",
     splitHands |-> <<>>,
     activeHandIndex |-> 0,
     result |-> NoResult,
     reshuffled |-> FALSE,
     stats |-> [handsPlayed |-> 0, handsWon |-> 0, handsLost |-> 0,
                handsPushed |-> 0, blackjacks |-> 0, peakChips |-> 1000]]

IsSplit(s) == s.splitHands # <<>>

(***************************************************************************)
(* The blackjack check.                                                    *)
(***************************************************************************)
\* PlayedOneMore that leaves handsPlayed as it is.
PlayedOneMore_Same(s) == s.stats

\* const stats = { ...state.stats, handsPlayed: state.stats.handsPlayed + 1 }
PlayedOneMore(s) == [s.stats EXCEPT !.handsPlayed = @ + 1]

\* Both hands are naturals: a push, the bet is returned.
MutualBlackjack(s) ==
    [s EXCEPT !.phase = "result",
              !.chips = s.chips + s.bet,
              !.stats = [PlayedOneMore(s) EXCEPT
                           !.handsPushed = @ + 1,
                           !.peakChips = Max(@, s.chips + s.bet)],
              !.result = Result("push", "Both have Blackjack - Push!", 0)]

\* Only the player has a natural: it pays 3:2.
PlayerBlackjack(s) ==
    LET \* Math.round(state.bet * 1.5); bet * 1.5 = (3 * bet) / 2 exactly
        payout == MathRoundHalves(3 * s.bet)
        newChips == s.chips + s.bet + payout
    IN  [s EXCEPT !.phase = "result",
                  !.chips = newChips,
                  !.stats = [PlayedOneMore(s) EXCEPT
                               !.handsWon = @ + 1,
                               !.blackjacks = @ + 1,
                               !.peakChips = Max(@, newChips)],
                  !.result = Result("blackjack", "BLACKJACK!", payout)]

\* DealerBlackjack that hands the bet back to the player.
DealerBlackjack_ReturnsBet(s) ==
    [s EXCEPT !.phase = "result",
              !.chips = s.chips + s.bet,
              !.stats = [PlayedOneMore(s) EXCEPT !.handsLost = @ + 1],
              !.result = Result("lose", "Dealer has Blackjack!", -s.bet)]

\* Only the dealer has a natural: the player loses.
DealerBlackjack(s) ==
    [s EXCEPT !.phase = "result",
              !.stats = [PlayedOneMore(s) EXCEPT !.handsLost = @ + 1],
              !.result = Result("lose", "Dealer has Blackjack!", -s.bet)]

CheckForBlackjack(s) ==
    LET playerBJ == IsBlackjack(s.playerHand)
        dealerBJ == IsBlackjack(s.dealerHand)
    IN  IF ~playerBJ /\ ~dealerBJ THEN s
        ELSE IF playerBJ /\ dealerBJ THEN MutualBlackjack(s)
        ELSE IF playerBJ THEN PlayerBlackjack(s)
        ELSE DealerBlackjack(s)

(***************************************************************************)
(* Player actions on the single hand.                                      *)
(***************************************************************************)
\* PlayerHit without the automatic stand: a total of 21 stays in playing.
PlayerHit_NoAutoStand(s) ==
    LET deck == Pop(s.deck)
        card == Top(s.deck)
        playerHand == Append(s.playerHand, card)
        total == CalculateHandTotal(playerHand).total
    IN  IF total > 21 THEN
            [s EXCEPT !.deck = deck,
                      !.playerHand = playerHand,
                      !.phase = "result",
                      !.result = Result("bust", "BUST!", -s.bet),
                      !.stats = [s.stats EXCEPT !.handsPlayed = @ + 1,
                                                !.handsLost = @ + 1]]
        ELSE
            [s EXCEPT !.deck = deck, !.playerHand = playerHand]

PlayerHit(s) ==
    LET deck == Pop(s.deck)
        card == Top(s.deck)
        playerHand == Append(s.playerHand, card)
        total == CalculateHandTotal(playerHand).total
    IN  IF total > 21 THEN
            [s EXCEPT !.deck = deck,
                      !.playerHand = playerHand,
                      !.phase = "result",
                      !.result = Result("bust", "BUST!", -s.bet),
                      !.stats = [s.stats EXCEPT !.handsPlayed = @ + 1,
                                                !.handsLost = @ + 1]]
        ELSE IF total = 21 THEN
            [s EXCEPT !.deck = deck,
                      !.playerHand = playerHand,
                      !.phase = "dealerTurn"]
        ELSE
            [s EXCEPT !.deck = deck, !.playerHand = playerHand]

\* PlayerStand that ends the round at once.
PlayerStand_EndsRound(s) == [s EXCEPT !.phase = "result"]

PlayerStand(s) == [s EXCEPT !.phase = "dealerTurn"]

\* PlayerDouble whose bust reports the loss of the original bet only.
PlayerDouble_LosesOriginalBet(s) ==
    LET deck == Pop(s.deck)
        card == Top(s.deck)
        playerHand == Append(s.playerHand, card)
        newBet == s.bet * 2
        newChips == s.chips - s.bet
        total == CalculateHandTotal(playerHand).total
    IN  IF total > 21 THEN
            [s EXCEPT !.deck = deck,
                      !.playerHand = playerHand,
                      !.bet = newBet,
                      !.chips = newChips,
                      !.phase = "result",
                      !.result = Result("bust", "BUST!", -s.bet),
                      !.stats = [s.stats EXCEPT !.handsPlayed = @ + 1,
                                                !.handsLost = @ + 1]]
        ELSE
            [s EXCEPT !.deck = deck,
                      !.playerHand = playerHand,
                      !.bet = newBet,
                      !.chips = newChips,
                      !.phase = "dealerTurn"]

PlayerDouble(s) ==
    LET deck == Pop(s.deck)
        card == Top(s.deck)
        playerHand == Append(s.playerHand, card)
        newBet == s.bet * 2
        newChips == s.chips - s.bet
        total == CalculateHandTotal(playerHand).total
    IN  IF total > 21 THEN
            [s EXCEPT !.deck = deck,
                      !.playerHand = playerHand,
                      !.bet = newBet,
                      !.chips = newChips,
                      !.phase = "result",
                      !.result = Result("bust", "BUST!", -newBet),
                      !.stats = [s.stats EXCEPT !.handsPlayed = @ + 1,
                                                !.handsLost = @ + 1]]
        ELSE
            [s EXCEPT !.deck = deck,
                      !.playerHand = playerHand,
                      !.bet = newBet,
                      !.chips = newChips,
                      !.phase = "dealerTurn"]

(***************************************************************************)
(* Dealer automation.                                                      *)
(***************************************************************************)
\* IsDealerDone for a dealer who hits a soft 17.
IsDealerDone_HitsSoft17(s) ==
    LET hand == CalculateHandTotal(s.dealerHand)
    IN  hand.total > 17 \/ (hand.total = 17 /\ ~hand.soft)

IsDealerDone(s) == CalculateHandTotal(s.dealerHand).total >= 17

\* DealerDrawOne that takes the first element of the deck: deck.shift().
DealerDrawOne_FromBottom(s) ==
    [s EXCEPT !.deck = Tail(s.deck),
              !.dealerHand = Append(s.dealerHand, Head(s.deck))]

DealerDrawOne(s) ==
    [s EXCEPT !.deck = Pop(s.deck),
              !.dealerHand = Append(s.dealerHand, Top(s.deck))]

(***************************************************************************)
(* Settlement.                                                             *)
(***************************************************************************)
\* SettleOneHand that looks at the dealer's bust before the player's.
SettleOneHand_DealerBustFirst(playerTotal, playerBust, dealerTotal, bet) ==
    IF dealerTotal > 21 THEN Result("win", "Dealer busts!", bet)
    ELSE IF playerBust THEN Result("lose", "Bust!", -bet)
    ELSE IF playerTotal > dealerTotal THEN Result("win", "You win!", bet)
    ELSE IF playerTotal < dealerTotal THEN Result("lose", "Dealer wins.", -bet)
    ELSE Result("push", "Push!", 0)

SettleOneHand(playerTotal, playerBust, dealerTotal, bet) ==
    IF playerBust THEN Result("lose", "Bust!", -bet)
    ELSE IF dealerTotal > 21 THEN Result("win", "Dealer busts!", bet)
    ELSE IF playerTotal > dealerTotal THEN Result("win", "You win!", bet)
    ELSE IF playerTotal < dealerTotal THEN Result("lose", "Dealer wins.", -bet)
    ELSE Result("push", "Push!", 0)

\* SettleSplitHand that pays a two-card 21 as a blackjack, 3:2.
SettleSplitHand_NaturalPays(hand, dealerTotal) ==
    [cards |-> hand.cards, bet |-> hand.bet, status |-> hand.status,
     result |-> IF IsBlackjack(hand.cards) /\ dealerTotal # 21
                THEN Result("blackjack", "BLACKJACK!", MathRoundHalves(3 * hand.bet))
                ELSE SettleOneHand(CalculateHandTotal(hand.cards).total,
                                   hand.status = "bust", dealerTotal, hand.bet)]

\* One iteration of settleSplitRound's map callback: the hand with its result.
SettleSplitHand(hand, dealerTotal) ==
    [cards |-> hand.cards, bet |-> hand.bet, status |-> hand.status,
     result |-> SettleOneHand(CalculateHandTotal(hand.cards).total,
                              hand.status = "bust", dealerTotal, hand.bet)]

\* SplitHandReturn that gives nothing back on a push.
SplitHandReturn_PushForfeits(settled) ==
    IF settled.result.outcome = "win" THEN settled.bet + settled.bet
    ELSE 0

\* What the map callback adds to newChips for a settled hand.
SplitHandReturn(settled) ==
    IF settled.result.outcome = "win" THEN settled.bet + settled.bet
    ELSE IF settled.result.outcome = "lose" THEN 0
    ELSE settled.bet

\* The number of settled hands with the given outcome.
RECURSIVE CountOutcome(_, _)
CountOutcome(settledHands, outcome) ==
    IF settledHands = <<>> THEN 0
    ELSE (IF settledHands[1].result.outcome = outcome THEN 1 ELSE 0)
         + CountOutcome(Tail(settledHands), outcome)

RECURSIVE SumReturns(_)
SumReturns(settledHands) ==
    IF settledHands = <<>> THEN 0
    ELSE SplitHandReturn(settledHands[1]) + SumReturns(Tail(settledHands))

\* SumChipChange that reports the first hand only.
SumChipChange_FirstHand(settledHands) ==
    IF settledHands = <<>> THEN 0 ELSE settledHands[1].result.chipChange

RECURSIVE SumChipChange(_)
SumChipChange(settledHands) ==
    IF settledHands = <<>> THEN 0
    ELSE settledHands[1].result.chipChange + SumChipChange(Tail(settledHands))

\* SettleSplitRound that counts the split round as one hand played.
SettleSplitRound_CountsRound(s) ==
    LET dealerTotal == CalculateHandTotal(s.dealerHand).total
        settledHands == [i \in 1..Len(s.splitHands) |->
                            SettleSplitHand(s.splitHands[i], dealerTotal)]
        newChips == s.chips + SumReturns(settledHands)
        n == Len(settledHands)
        won == CountOutcome(settledHands, "win")
        lost == CountOutcome(settledHands, "lose")
    IN  [s EXCEPT !.phase = "result",
                  !.chips = newChips,
                  !.splitHands = settledHands,
                  !.stats = [s.stats EXCEPT
                               !.handsPlayed = @ + 1,
                               !.handsWon = @ + won,
                               !.handsLost = @ + lost,
                               !.handsPushed = @ + (n - won - lost),
                               !.peakChips = Max(@, newChips)],
                  !.result = Result("split", "Split results",
                                    SumChipChange(settledHands))]

SettleSplitRound(s) ==
    LET dealerTotal == CalculateHandTotal(s.dealerHand).total
        settledHands == [i \in 1..Len(s.splitHands) |->
                            SettleSplitHand(s.splitHands[i], dealerTotal)]
        newChips == s.chips + SumReturns(settledHands)
        n == Len(settledHands)
        won == CountOutcome(settledHands, "win")
        lost == CountOutcome(settledHands, "lose")
    IN  [s EXCEPT !.phase = "result",
                  !.chips = newChips,
                  !.splitHands = settledHands,
                  !.stats = [s.stats EXCEPT
                               !.handsPlayed = @ + n,
                               !.handsWon = @ + won,
                               !.handsLost = @ + lost,
                               !.handsPushed = @ + (n - won - lost),
                               !.peakChips = Max(@, newChips)],
                  !.result = Result("split", "Split results",
                                    SumChipChange(settledHands))]

\* Settled that leaves peakChips alone.
Settled_KeepsPeak(s, outcome, message, chipChange, newChips, counter) ==
    [s EXCEPT !.phase = "result",
              !.chips = newChips,
              !.stats = [s.stats EXCEPT
                           !.handsPlayed = @ + 1,
                           ![counter] = @ + 1],
              !.result = Result(outcome, message, chipChange)]

\* The state settleRound returns for a single hand: handsPlayed and the
\* outcome's counter go up by one, peakChips follows the new chip count.
Settled(s, outcome, message, chipChange, newChips, counter) ==
    [s EXCEPT !.phase = "result",
              !.chips = newChips,
              !.stats = [s.stats EXCEPT
                           !.handsPlayed = @ + 1,
                           ![counter] = @ + 1,
                           !.peakChips = Max(@, newChips)],
              !.result = Result(outcome, message, chipChange)]

\* SettleRound with the dealer winning ties: playerTotal <= dealerTotal.
SettleRound_TieLoses(s) ==
    IF IsSplit(s) THEN SettleSplitRound(s)
    ELSE
    LET playerTotal == CalculateHandTotal(s.playerHand).total
        dealerTotal == CalculateHandTotal(s.dealerHand).total
    IN  IF dealerTotal > 21 THEN
            Settled(s, "win", "Dealer busts!", s.bet, s.chips + s.bet + s.bet, "handsWon")
        ELSE IF playerTotal > dealerTotal THEN
            Settled(s, "win", "You win!", s.bet, s.chips + s.bet + s.bet, "handsWon")
        ELSE IF playerTotal <= dealerTotal THEN
            Settled(s, "lose", "Dealer wins.", -s.bet, s.chips, "handsLost")
        ELSE
            Settled(s, "push", "Push!", 0, s.chips + s.bet, "handsPushed")

SettleRound(s) ==
    IF IsSplit(s) THEN SettleSplitRound(s)
    ELSE
    LET playerTotal == CalculateHandTotal(s.playerHand).total
        dealerTotal == CalculateHandTotal(s.dealerHand).total
    IN  IF dealerTotal > 21 THEN
            Settled(s, "win", "Dealer busts!", s.bet, s.chips + s.bet + s.bet, "handsWon")
        ELSE IF playerTotal > dealerTotal THEN
            Settled(s, "win", "You win!", s.bet, s.chips + s.bet + s.bet, "handsWon")
        ELSE IF playerTotal < dealerTotal THEN
            Settled(s, "lose", "Dealer wins.", -s.bet, s.chips, "handsLost")
        ELSE
            Settled(s, "push", "Push!", 0, s.chips + s.bet, "handsPushed")

(***************************************************************************)
(* Bet validation and the game-over check.                                 *)
(***************************************************************************)
\* return { valid: false, error }
Rejected(error) == [valid |-> FALSE, error |-> error]

\* AcceptedBet that also clears the reshuffled flag of the state it returns.
AcceptedBet_ClearsFlag(s, amount) ==
    [valid |-> TRUE,
     state |-> [s EXCEPT !.bet = amount.v,
                         !.chips = s.chips - amount.v,
                         !.phase = "playing",
                         !.reshuffled = FALSE]]

\* return { valid: true, state: { ...state, bet, chips, phase } }
AcceptedBet(s, amount) ==
    [valid |-> TRUE,
     state |-> [s EXCEPT !.bet = amount.v,
                         !.chips = s.chips - amount.v,
                         !.phase = "playing"]]

\* PlaceBet without the comparison against the chips held.
PlaceBet_NoChipsCheck(s, amount) ==
    IF ~NumberIsInteger(amount) \/ amount.v <= 0 THEN
        Rejected("Bet must be a whole number greater than zero.")
    ELSE IF amount.v < 10 THEN Rejected("Minimum bet is $10.")
    ELSE IF amount.v > 500 THEN Rejected("Maximum bet is $500.")
    ELSE AcceptedBet(s, amount)

\* PlaceBet with the maximum tested by >=: a bet of exactly 500 is rejected.
PlaceBet_MaxExclusive(s, amount) ==
    IF ~NumberIsInteger(amount) \/ amount.v <= 0 THEN
        Rejected("Bet must be a whole number greater than zero.")
    ELSE IF amount.v < 10 THEN Rejected("Minimum bet is $10.")
    ELSE IF amount.v >= 500 THEN Rejected("Maximum bet is $500.")
    ELSE IF amount.v > s.chips THEN
        Rejected("You only have $" \o ToString(s.chips)
                 \o ". Bet must be within your chip count.")
    ELSE AcceptedBet(s, amount)

PlaceBet(s, amount) ==
    IF ~NumberIsInteger(amount) \/ amount.v <= 0 THEN
        Rejected("Bet must be a whole number greater than zero.")
    ELSE IF amount.v < 10 THEN Rejected("Minimum bet is $10.")
    ELSE IF amount.v > 500 THEN Rejected("Maximum bet is $500.")
    ELSE IF amount.v > s.chips THEN
        Rejected("You only have $" \o ToString(s.chips)
                 \o ". Bet must be within your chip count.")
    ELSE AcceptedBet(s, amount)

\* CheckGameOver that ends the game at the minimum bet itself.
CheckGameOver_AtMinimum(s) ==
    IF s.chips <= 10 THEN [s EXCEPT !.phase = "gameOver"] ELSE s

\* CheckGameOver that never ends the game.
CheckGameOver_Never(s) == s

CheckGameOver(s) ==
    IF s.chips < 10 THEN [s EXCEPT !.phase = "gameOver"] ELSE s

(***************************************************************************)
(* The split sub-engine.                                                   *)
(***************************************************************************)
\* PlayerSplit treating Aces as any other pair: both hands stay in play.
PlayerSplit_AcesPlayOn(s) ==
    LET originalBet == s.bet
        newChips == s.chips - originalBet
        card1 == Top(s.deck)
        card2 == Top(Pop(s.deck))
        deck == Pop(Pop(s.deck))
        splitHands ==
            << [cards |-> <<s.playerHand[1], card1>>, bet |-> originalBet,
                status |-> "playing"],
               [cards |-> <<s.playerHand[2], card2>>, bet |-> originalBet,
                status |-> "playing"] >>
    IN  [s EXCEPT !.deck = deck,
                  !.chips = newChips,
                  !.splitHands = splitHands,
                  !.activeHandIndex = 0,
                  !.phase = "playing"]

\* PlayerSplit dealing the first card drawn to the second hand.
PlayerSplit_CardsCrossed(s) ==
    LET originalBet == s.bet
        newChips == s.chips - originalBet
        card1 == Top(s.deck)
        card2 == Top(Pop(s.deck))
        deck == Pop(Pop(s.deck))
        isAceSplit == s.playerHand[1].rank = "A"
        handStatus == IF isAceSplit THEN "stand" ELSE "playing"
        splitHands ==
            << [cards |-> <<s.playerHand[1], card2>>, bet |-> originalBet,
                status |-> handStatus],
               [cards |-> <<s.playerHand[2], card1>>, bet |-> originalBet,
                status |-> handStatus] >>
    IN  [s EXCEPT !.deck = deck,
                  !.chips = newChips,
                  !.splitHands = splitHands,
                  !.activeHandIndex = 0,
                  !.phase = IF isAceSplit THEN "dealerTurn" ELSE "playing"]

PlayerSplit(s) ==
    LET originalBet == s.bet
        newChips == s.chips - originalBet
        card1 == Top(s.deck)
        card2 == Top(Pop(s.deck))
        deck == Pop(Pop(s.deck))
        isAceSplit == s.playerHand[1].rank = "A"
        handStatus == IF isAceSplit THEN "stand" ELSE "playing"
        splitHands ==
            << [cards |-> <<s.playerHand[1], card1>>, bet |-> originalBet,
                status |-> handStatus],
               [cards |-> <<s.playerHand[2], card2>>, bet |-> originalBet,
                status |-> handStatus] >>
    IN  [s EXCEPT !.deck = deck,
                  !.chips = newChips,
                  !.splitHands = splitHands,
                  !.activeHandIndex = 0,
                  !.phase = IF isAceSplit THEN "dealerTurn" ELSE "playing"]

\* The hand state.splitHands[index] for a 0-based index.
SplitHandAt(s, index) == s.splitHands[index + 1]

\* splitHands.findIndex((h, i) => i > activeHandIndex && h.status === 'playing')
NextPlayingIndex(s) ==
    LET later == {i \in 0..(Len(s.splitHands) - 1) :
                    i > s.activeHandIndex /\ SplitHandAt(s, i).status = "playing"}
    IN  IF later = {} THEN -1
        ELSE CHOOSE i \in later : \A j \in later : i <= j

\* AdvanceSplitHand that ends the player's turn without looking for a hand
\* still in play.
AdvanceSplitHand_EndsTurn(s) == [s EXCEPT !.phase = "dealerTurn"]

AdvanceSplitHand(s) ==
    LET allDone == \A i \in 1..Len(s.splitHands) : s.splitHands[i].status # "playing"
        nextIndex == NextPlayingIndex(s)
    IN  IF allDone THEN [s EXCEPT !.phase = "dealerTurn"]
        ELSE IF nextIndex # -1 THEN [s EXCEPT !.activeHandIndex = nextIndex]
        ELSE [s EXCEPT !.phase = "dealerTurn"]

\* SplitHit that always plays the first hand, whatever activeHandIndex says.
SplitHit_FirstHand(s) ==
    LET deck == Pop(s.deck)
        card == Top(s.deck)
        handIndex == 0
        hand == SplitHandAt(s, handIndex)
        newCards == Append(hand.cards, card)
        total == CalculateHandTotal(newCards).total
        newStatus == IF total > 21 THEN "bust"
                     ELSE IF total = 21 THEN "stand" ELSE "playing"
        newHand == [hand EXCEPT !.cards = newCards, !.status = newStatus]
        newSplitHands == [s.splitHands EXCEPT ![handIndex + 1] = newHand]
    IN  IF newStatus # "playing"
        THEN AdvanceSplitHand([s EXCEPT !.deck = deck, !.splitHands = newSplitHands])
        ELSE [s EXCEPT !.deck = deck, !.splitHands = newSplitHands]

SplitHit(s) ==
    LET deck == Pop(s.deck)
        card == Top(s.deck)
        handIndex == s.activeHandIndex
        hand == SplitHandAt(s, handIndex)
        newCards == Append(hand.cards, card)
        total == CalculateHandTotal(newCards).total
        newStatus == IF total > 21 THEN "bust"
                     ELSE IF total = 21 THEN "stand" ELSE "playing"
        newHand == [hand EXCEPT !.cards = newCards, !.status = newStatus]
        newSplitHands == [s.splitHands EXCEPT ![handIndex + 1] = newHand]
    IN  IF newStatus # "playing"
        THEN AdvanceSplitHand([s EXCEPT !.deck = deck, !.splitHands = newSplitHands])
        ELSE [s EXCEPT !.deck = deck, !.splitHands = newSplitHands]

SplitStand(s) ==
    LET handIndex == s.activeHandIndex
        hand == SplitHandAt(s, handIndex)
        newHand == [hand EXCEPT !.status = "stand"]
        newSplitHands == [s.splitHands EXCEPT ![handIndex + 1] = newHand]
    IN  AdvanceSplitHand([s EXCEPT !.splitHands = newSplitHands])

(***************************************************************************)
(* The actions open to the player.                                         *)
(***************************************************************************)
\* GetAvailableActions that compares the values of the two cards.
GetAvailableActions_ByValue(s) ==
    LET playing == s.phase = "playing"
        handCards == s.playerHand
        total == IF playing THEN CalculateHandTotal(handCards).total ELSE 0
        isSplit == IsSplit(s)
        activeHand == SplitHandAt(s, s.activeHandIndex)
        activeTotal == CalculateHandTotal(activeHand.cards).total
    IN  IF isSplit /\ playing THEN
            [hit |-> FALSE, stand |-> FALSE, double |-> FALSE, split |-> FALSE,
             splitHit |-> activeTotal < 21 /\ activeHand.status = "playing",
             splitStand |-> activeHand.status = "playing",
             quit |-> TRUE]
        ELSE
            [hit |-> playing /\ total < 21,
             stand |-> playing,
             double |-> playing /\ Len(handCards) = 2 /\ s.chips >= s.bet,
             split |-> playing /\ Len(handCards) = 2
                       /\ handCards[1].value = handCards[2].value
                       /\ s.chips >= s.bet,
             splitHit |-> FALSE,
             splitStand |-> FALSE,
             quit |-> TRUE]

\* GetAvailableActions that offers splitHit on a split hand of 21.
GetAvailableActions_HitAt21(s) ==
    LET playing == s.phase = "playing"
        handCards == s.playerHand
        total == IF playing THEN CalculateHandTotal(handCards).total ELSE 0
        isSplit == IsSplit(s)
        activeHand == SplitHandAt(s, s.activeHandIndex)
        activeTotal == CalculateHandTotal(activeHand.cards).total
    IN  IF isSplit /\ playing THEN
            [hit |-> FALSE, stand |-> FALSE, double |-> FALSE, split |-> FALSE,
             splitHit |-> activeTotal <= 21 /\ activeHand.status = "playing",
             splitStand |-> activeHand.status = "playing",
             quit |-> TRUE]
        ELSE
            [hit |-> playing /\ total < 21,
             stand |-> playing,
             double |-> playing /\ Len(handCards) = 2 /\ s.chips >= s.bet,
             split |-> playing /\ Len(handCards) = 2
                       /\ handCards[1].rank = handCards[2].rank
                       /\ s.chips >= s.bet,
             splitHit |-> FALSE,
             splitStand |-> FALSE,
             quit |-> TRUE]

GetAvailableActions(s) ==
    LET playing == s.phase = "playing"
        handCards == s.playerHand
        total == IF playing THEN CalculateHandTotal(handCards).total ELSE 0
        isSplit == IsSplit(s)
        activeHand == SplitHandAt(s, s.activeHandIndex)
        activeTotal == CalculateHandTotal(activeHand.cards).total
    IN  IF isSplit /\ playing THEN
            [hit |-> FALSE, stand |-> FALSE, double |-> FALSE, split |-> FALSE,
             splitHit |-> activeTotal < 21 /\ activeHand.status = "playing",
             splitStand |-> activeHand.status = "playing",
             quit |-> TRUE]
        ELSE
            [hit |-> playing /\ total < 21,
             stand |-> playing,
             double |-> playing /\ Len(handCards) = 2 /\ s.chips >= s.bet,
             split |-> playing /\ Len(handCards) = 2
                       /\ handCards[1].rank = handCards[2].rank
                       /\ s.chips >= s.bet,
             splitHit |-> FALSE,
             splitStand |-> FALSE,
             quit |-> TRUE]

(***************************************************************************)
(* The deal.  seed is the hidden seed of Math.random at the reshuffle.     *)
(***************************************************************************)
\* DealInitialCards that reshuffles at 15 cards too.
DealInitialCards_ReshuffleAt15(s, seed) ==
    LET low == Len(s.deck) <= 15
        full == IF low THEN ShuffleDeck(CreateDeck, seed) ELSE s.deck
        reshuffled == IF low THEN TRUE ELSE s.reshuffled
        playerHand == <<Top(full), Top(Pop(full))>>
        dealerHand == <<Top(Pop(Pop(full))), Top(Pop(Pop(Pop(full))))>>
    IN  [s EXCEPT !.deck = Pop(Pop(Pop(Pop(full)))),
                  !.playerHand = playerHand,
                  !.dealerHand = dealerHand,
                  !.reshuffled = reshuffled,
                  !.phase = "playing"]

DealInitialCards(s, seed) ==
    LET low == Len(s.deck) < 15
        full == IF low THEN ShuffleDeck(CreateDeck, seed) ELSE s.deck
        reshuffled == IF low THEN TRUE ELSE s.reshuffled
        playerHand == <<Top(full), Top(Pop(full))>>
        dealerHand == <<Top(Pop(Pop(full))), Top(Pop(Pop(Pop(full))))>>
    IN  [s EXCEPT !.deck = Pop(Pop(Pop(Pop(full)))),
                  !.playerHand = playerHand,
                  !.dealerHand = dealerHand,
                  !.reshuffled = reshuffled,
                  !.phase = "playing"]

(***************************************************************************)
(* The session driver: main().                                             *)
(*                                                                         *)
(* pc names main()'s position: "welcome", "betting" (the bet prompt),      *)
(* "deal", "blackjackCheck", "player" (the action loop), "dealer" (the     *)
(* dealer loop), "gameOverCheckBJ" / "gameOverCheckBust" /                 *)
(* "gameOverCheckSettle" (the three places checkGameOver is called),       *)
(* "gameOver" and "nextHand" (waiting for ENTER).  A key the code ignores  *)
(* changes nothing, and Q or Ctrl+C ends the process: both are steps that  *)
(* leave every variable unchanged.                                         *)
(***************************************************************************)
NoError == "null"
NoArg == [k |-> "none", v |-> 0]
NoRet == [valid |-> FALSE, error |-> ""]

\* The lines typed at the bet prompt: the empty line, a line the decimal
\* pattern rejects, and lines the pattern accepts, by the number they denote
\* (a digit string too long for a double denotes Infinity).
BetLines ==
    { [kind |-> "empty", value |-> NoArg], [kind |-> "text", value |-> NoArg] }
    \cup { [kind |-> "number", value |-> a] :
             a \in { Int_(n) : n \in {-10, 0, 9, 10, 15, 500, 501} }
                   \cup { Frac(10), Infinity } }

\* RoundReset that leaves the split hands of the last round in place.
RoundReset_KeepsSplit(s) ==
    [s EXCEPT !.phase = "betting",
              !.result = NoResult,
              !.playerHand = <<>>,
              !.dealerHand = <<>>,
              !.activeHandIndex = 0]

\* The assignment at the top of main()'s outer loop.
RoundReset(s) ==
    [s EXCEPT !.phase = "betting",
              !.result = NoResult,
              !.playerHand = <<>>,
              !.dealerHand = <<>>,
              !.splitHands = <<>>,
              !.activeHandIndex = 0]

Init ==
    /\ \E seed \in Seeds :
         state = [CreateGameState EXCEPT !.deck = ShuffleDeck(CreateDeck, seed)]
    /\ pc = "welcome"
    /\ lastBet = 0
    /\ betError = NoError
    /\ op = "createGameState"
    /\ arg = NoArg
    /\ ret = NoRet
    /\ chipsBefore = 1000

\* ENTER on the welcome screen.
Start ==
    /\ pc = "welcome"
    /\ state' = RoundReset(state)
    /\ pc' = "betting"
    /\ op' = "start"
    /\ arg' = NoArg
    /\ ret' = NoRet
    /\ UNCHANGED <<lastBet, betError, chipsBefore>>

\* The bet prompt rejects the line without calling placeBet.
BetRefused(message) ==
    /\ betError' = message
    /\ op' = "betRefused"
    /\ arg' = NoArg
    /\ ret' = NoRet
    /\ UNCHANGED <<state, pc, lastBet, chipsBefore>>

\* The bet prompt calls placeBet(state, amount).
BetCall(amount) ==
    LET betResult == PlaceBet(state, amount)
    IN  /\ op' = "placeBet"
        /\ arg' = amount
        /\ ret' = betResult
        /\ IF betResult.valid
           THEN /\ state' = betResult.state
                /\ lastBet' = amount.v
                /\ betError' = NoError
                /\ chipsBefore' = state.chips
                /\ pc' = "deal"
           ELSE /\ betError' = betResult.error
                /\ UNCHANGED <<state, lastBet, chipsBefore, pc>>

\* One line read at the bet prompt.
BetPrompt ==
    /\ pc = "betting"
    /\ \E line \in BetLines :
         IF line.kind = "empty" THEN
             IF lastBet <= 0 THEN BetRefused("Enter a bet amount.")
             ELSE BetCall(Int_(Min(lastBet, state.chips)))
         ELSE IF line.kind = "text" THEN BetRefused("Enter a whole number.")
         ELSE IF ~NumberIsFinite(line.value) \/ ~NumberIsInteger(line.value)
              THEN BetRefused("Enter a whole number.")
         ELSE BetCall(line.value)

\* The bet prompt, while fewer than MaxHands hands are played.
BetInput ==
    /\ state.stats.handsPlayed < MaxHands
    /\ BetPrompt

\* state = dealInitialCards(state), a reshuffle starting from one of `seeds`.
DealWith(seeds) ==
    /\ pc = "deal"
    /\ \E seed \in seeds : state' = DealInitialCards(state, seed)
    /\ pc' = "blackjackCheck"
    /\ op' = "dealInitialCards"
    /\ arg' = NoArg
    /\ ret' = NoRet
    /\ UNCHANGED <<lastBet, betError, chipsBefore>>

Deal == DealWith(Seeds)

BlackjackCheck ==
    /\ pc = "blackjackCheck"
    /\ LET postBJ == CheckForBlackjack(state)
       IN  IF postBJ.phase = "result"
           THEN /\ state' = postBJ
                /\ pc' = "gameOverCheckBJ"
           ELSE /\ state' = [state EXCEPT !.reshuffled = FALSE]
                /\ pc' = "player"
    /\ op' = "checkForBlackjack"
    /\ arg' = NoArg
    /\ ret' = NoRet
    /\ UNCHANGED <<lastBet, betError, chipsBefore>>

\* One pass of the player action loop: the key pressed selects the engine
\* function, and getAvailableActions decides whether it is applied.
KeyAction(s, key, actions) ==
    IF key = "h" /\ actions.hit THEN "playerHit"
    ELSE IF key = "s" /\ actions.stand THEN "playerStand"
    ELSE IF key = "d" /\ actions.double THEN "playerDouble"
    ELSE IF key = "p" /\ actions.split THEN "playerSplit"
    ELSE IF key = "h" /\ actions.splitHit THEN "splitHit"
    ELSE IF key = "s" /\ actions.splitStand THEN "splitStand"
    ELSE "ignored"

ApplyEngine(s, name) ==
    CASE name = "playerHit" -> PlayerHit(s)
      [] name = "playerStand" -> PlayerStand(s)
      [] name = "playerDouble" -> PlayerDouble(s)
      [] name = "playerSplit" -> PlayerSplit(s)
      [] name = "splitHit" -> SplitHit(s)
      [] name = "splitStand" -> SplitStand(s)

Keys == {"h", "s", "d", "p"}

\* The number of deck.pop() calls the engine function makes.
Draws(name) ==
    IF name = "playerSplit" THEN 2
    ELSE IF name \in {"playerHit", "playerDouble", "splitHit"} THEN 1
    ELSE 0

PlayerKey ==
    /\ pc = "player"
    /\ state.phase = "playing"
    /\ \E key \in Keys :
         LET name == KeyAction(state, key, GetAvailableActions(state))
         IN  /\ name # "ignored"
             /\ Len(state.deck) >= Draws(name)
             /\ state' = ApplyEngine(state, name)
             /\ op' = name
    /\ arg' = NoArg
    /\ ret' = NoRet
    /\ UNCHANGED <<pc, lastBet, betError, chipsBefore>>

\* PlayerLoopExit without the branch for a bust: the dealer's turn always
\* follows the action loop.
PlayerLoopExit_AlwaysDealer ==
    /\ pc = "player"
    /\ state.phase # "playing"
    /\ pc' = "dealer"
    /\ state' = [state EXCEPT !.phase = "dealerTurn"]
    /\ op' = "playerLoopExit"
    /\ arg' = NoArg
    /\ ret' = NoRet
    /\ UNCHANGED <<lastBet, betError, chipsBefore>>

\* The action loop ends: a bust goes to its game-over check, anything else
\* to the dealer's turn.
PlayerLoopExit ==
    /\ pc = "player"
    /\ state.phase # "playing"
    /\ IF state.phase = "result"
       THEN /\ pc' = "gameOverCheckBust"
            /\ UNCHANGED state
       ELSE /\ pc' = "dealer"
            /\ state' = [state EXCEPT !.phase = "dealerTurn"]
    /\ op' = "playerLoopExit"
    /\ arg' = NoArg
    /\ ret' = NoRet
    /\ UNCHANGED <<lastBet, betError, chipsBefore>>

\* One pass of the dealer loop.
DealerDraw ==
    /\ pc = "dealer"
    /\ ~IsDealerDone(state)
    /\ state.deck # <<>>
    /\ state' = DealerDrawOne(state)
    /\ op' = "dealerDrawOne"
    /\ arg' = NoArg
    /\ ret' = NoRet
    /\ UNCHANGED <<pc, lastBet, betError, chipsBefore>>

\* The dealer loop ends and the round is settled.
Settle ==
    /\ pc = "dealer"
    /\ IsDealerDone(state)
    /\ state' = SettleRound(state)
    /\ pc' = "gameOverCheckSettle"
    /\ op' = "settleRound"
    /\ arg' = NoArg
    /\ ret' = NoRet
    /\ UNCHANGED <<lastBet, betError, chipsBefore>>

\* state = checkGameOver(state) at position `at`; clearFlag tells whether
\* this place clears reshuffled when the game goes on.
GameOverCheck(at, clearFlag) ==
    /\ pc = at
    /\ LET checked == CheckGameOver(state)
       IN  IF checked.phase = "gameOver"
           THEN /\ state' = checked
                /\ pc' = "gameOver"
           ELSE /\ state' = IF clearFlag
                            THEN [checked EXCEPT !.reshuffled = FALSE]
                            ELSE checked
                /\ pc' = "nextHand"
    /\ op' = "checkGameOver"
    /\ arg' = NoArg
    /\ ret' = NoRet
    /\ UNCHANGED <<lastBet, betError, chipsBefore>>

GameOverCheckBJ == GameOverCheck("gameOverCheckBJ", TRUE)
GameOverCheckBust == GameOverCheck("gameOverCheckBust", FALSE)
GameOverCheckSettle == GameOverCheck("gameOverCheckSettle", FALSE)

\* Restart that starts the statistics over as well.
Restart_ResetsStats ==
    /\ pc = "gameOver"
    /\ state' = RoundReset([state EXCEPT !.chips = 1000, !.phase = "betting",
                                         !.stats = CreateGameState.stats])
    /\ pc' = "betting"
    /\ op' = "restart"
    /\ arg' = NoArg
    /\ ret' = NoRet
    /\ UNCHANGED <<lastBet, betError, chipsBefore>>

\* ENTER on the game-over screen: chips are reset, then the outer loop
\* starts over.
Restart ==
    /\ pc = "gameOver"
    /\ state' = RoundReset([state EXCEPT !.chips = 1000, !.phase = "betting"])
    /\ pc' = "betting"
    /\ op' = "restart"
    /\ arg' = NoArg
    /\ ret' = NoRet
    /\ UNCHANGED <<lastBet, betError, chipsBefore>>

\* ENTER after a result: the outer loop starts over.
NextHand ==
    /\ pc = "nextHand"
    /\ state' = RoundReset(state)
    /\ pc' = "betting"
    /\ op' = "nextHand"
    /\ arg' = NoArg
    /\ ret' = NoRet
    /\ UNCHANGED <<lastBet, betError, chipsBefore>>

Next ==
    \/ Start
    \/ BetInput
    \/ Deal
    \/ BlackjackCheck
    \/ PlayerKey
    \/ PlayerLoopExit
    \/ DealerDraw
    \/ Settle
    \/ GameOverCheckBJ
    \/ GameOverCheckBust
    \/ GameOverCheckSettle
    \/ Restart
    \/ NextHand

Spec == Init /\ [][Next]_vars

(***************************************************************************)
(* The later rounds of a session.                                          *)
(*                                                                         *)
(* LateInit is the bet prompt some rounds into a session, when the deck    *)
(* is about to run low: 14 or 15 cards are left of a shuffled deck, among  *)
(* them the orders in which a round needs more cards than 15.  The rounds   *)
(* then go as in Spec.  A draw from the empty deck yields undefined, and   *)
(* the first read of that card's fields throws: in playerHit, playerDouble  *)
(* and splitHit at once (calculateHandTotal), after dealerDrawOne in the   *)
(* rendering of the dealer's hand; the uncaughtException handler then ends *)
(* the process.                                                            *)
(***************************************************************************)
MaxLateHands == 2

\* Seeds of the reshuffle: 7 deals the dealer a natural, 13 the player.
LateSeeds == {2, 7, 13}

LateDeckSizes == {14, 15}

\* 15 cards, bottom first: the player is dealt two Aces and can hit nine
\* times up to 21, the dealer is dealt 8 and has 16 after the last two cards.
LowDeck ==
    << Card("diamonds", "4"), Card("clubs", "4"),
       Card("spades", "3"), Card("hearts", "3"), Card("diamonds", "3"),
       Card("spades", "2"), Card("hearts", "2"), Card("diamonds", "2"),
       Card("clubs", "2"), Card("diamonds", "A"), Card("clubs", "A"),
       Card("hearts", "4"), Card("spades", "4"),
       Card("hearts", "A"), Card("spades", "A") >>

\* 15 cards, bottom first: the player is dealt a pair of 2s against a
\* dealer 20; after a split the first hand can take every card that is left.
LowSplitDeck ==
    << Card("clubs", "2"), Card("diamonds", "2"),
       Card("clubs", "3"), Card("diamonds", "3"), Card("hearts", "3"),
       Card("spades", "3"), Card("clubs", "A"), Card("diamonds", "A"),
       Card("hearts", "A"), Card("spades", "4"), Card("spades", "A"),
       Card("hearts", "K"), Card("spades", "K"),
       Card("hearts", "2"), Card("spades", "2") >>

LateDecks ==
    { SubSeq(ShuffleDeck(CreateDeck, seed), 1, size) :
        seed \in {1, 2}, size \in LateDeckSizes }
    \cup {LowDeck, LowSplitDeck}

LateChips == {15, 1000}

LateStats ==
    [handsPlayed |-> 8, handsWon |-> 3, handsLost |-> 4, handsPushed |-> 1,
     blackjacks |-> 0, peakChips |-> 1000]

LateInit ==
    /\ \E deck \in LateDecks, chips \in LateChips :
         state = [RoundReset(CreateGameState) EXCEPT !.deck = deck,
                                                    !.chips = chips,
                                                    !.bet = 10,
                                                    !.stats = LateStats]
    /\ pc = "betting"
    /\ lastBet = 10
    /\ betError = NoError
    /\ op = "nextHand"
    /\ arg = NoArg
    /\ ret = NoRet
    /\ chipsBefore = state.chips

LateBetInput ==
    /\ state.stats.handsPlayed < LateStats.handsPlayed + MaxLateHands
    /\ BetPrompt

LateDeal == DealWith(LateSeeds)

\* deck.pop() on the empty array.
Undefined == [suit |-> "undefined", rank |-> "undefined", value |-> 0]

\* A draw from the empty deck ends the process.
Fatal ==
    /\ \/ /\ pc = "player" /\ state.phase = "playing"
          /\ \E key \in Keys :
               LET name == KeyAction(state, key, GetAvailableActions(state))
               IN  name # "ignored" /\ Len(state.deck) < Draws(name)
          /\ UNCHANGED state
       \/ /\ pc = "dealer" /\ ~IsDealerDone(state) /\ state.deck = <<>>
          /\ state' = [state EXCEPT !.dealerHand = Append(@, Undefined)]
    /\ pc' = "fatal"
    /\ op' = "uncaughtException"
    /\ arg' = NoArg
    /\ ret' = NoRet
    /\ UNCHANGED <<lastBet, betError, chipsBefore>>

LateNext ==
    \/ LateBetInput
    \/ LateDeal
    \/ BlackjackCheck
    \/ PlayerKey
    \/ PlayerLoopExit
    \/ DealerDraw
    \/ Settle
    \/ GameOverCheckBJ
    \/ GameOverCheckBust
    \/ GameOverCheckSettle
    \/ Restart
    \/ NextHand
    \/ Fatal

LateSpec == LateInit /\ [][LateNext]_vars

(***************************************************************************)
(* Progress.  Between the deal and the result main runs on by itself (the  *)
(* blackjack check, the end of the player loop, the dealer loop with its   *)
(* pauses, the settlement); in the player loop it waits for a key, and the *)
(* rounds looked at are those in which the player keeps pressing one that  *)
(* acts.                                                                   *)
(***************************************************************************)
RoundFairness ==
    /\ WF_vars(BlackjackCheck)
    /\ WF_vars(PlayerKey)
    /\ WF_vars(PlayerLoopExit)
    /\ WF_vars(DealerDraw)
    /\ WF_vars(Settle)

FairSpec == Spec /\ RoundFairness

LateFairSpec == LateSpec /\ RoundFairness

(***************************************************************************)
(* The engine's functions on round states drawn from bounded sets.         *)
(*                                                                         *)
(* FnInit draws one round state: the state createGameState returns, a     *)
(* betting state (no cards out), a playing state (just dealt) or a         *)
(* dealer-turn state.  Each action applies one engine function to it and   *)
(* records what the function returned in ret and the argument it was given *)
(* in arg; the state the caller holds stays as drawn.                      *)
(***************************************************************************)
FnRanks == <<"A", "6", "7", "K">>

\* The hands of exactly n cards over FnRanks; the card at position i has the
\* suit at position i + shift (cyclically), so a hand holds no card twice
\* while it has at most Len(SUITS) cards.
HandsOfLen(n, shift) ==
    { [i \in 1..n |-> Card(SUITS[((i + shift - 1) % Len(SUITS)) + 1], FnRanks[f[i]])] :
        f \in [1..n -> 1..Len(FnRanks)] }

HandsUpTo(lo, hi, shift) == UNION { HandsOfLen(n, shift) : n \in lo..hi }

CardsOf(hand) == { hand[i] : i \in 1..Len(hand) }

NoCardTwice(playerHand, dealerHand) ==
    /\ Cardinality(CardsOf(playerHand)) = Len(playerHand)
    /\ Cardinality(CardsOf(dealerHand)) = Len(dealerHand)
    /\ CardsOf(playerHand) \cap CardsOf(dealerHand) = {}

\* The deck without the cards that are out.
DeckWithout(cards) ==
    LET InDeck(c) == c \notin cards IN SelectSeq(CreateDeck, InDeck)

FnChips == {10, 15, 100, 499, 500, 1000, 1600}
FnBets == {15, 30, 50}
FnStats ==
    [handsPlayed |-> 7, handsWon |-> 3, handsLost |-> 3, handsPushed |-> 1,
     blackjacks |-> 1, peakChips |-> 1000]

FnState(playerHand, dealerHand, chips, bet, phase, reshuffled) ==
    [deck |-> DeckWithout(CardsOf(playerHand) \cup CardsOf(dealerHand)),
     playerHand |-> playerHand,
     dealerHand |-> dealerHand,
     chips |-> chips,
     bet |-> bet,
     phase |-> phase,
     splitHands |-> <<>>,
     activeHandIndex |-> 0,
     result |-> NoResult,
     reshuffled |-> reshuffled,
     stats |-> FnStats]

FnBettingState(s) ==
    \E chips \in FnChips, bet \in {0} \cup FnBets, reshuffled \in BOOLEAN :
        s = FnState(<<>>, <<>>, chips, bet, "betting", reshuffled)

\* Just dealt: two cards each.
FnPlayingState(s) ==
    \E playerHand \in HandsOfLen(2, 0), dealerHand \in HandsOfLen(2, 2),
       chips \in {20, 1000}, bet \in FnBets :
        /\ NoCardTwice(playerHand, dealerHand)
        /\ s = FnState(playerHand, dealerHand, chips, bet, "playing", FALSE)

\* The player's hand stands at 21 or less; the dealer holds two or three cards.
FnDealerTurnState(s) ==
    \E playerHand \in HandsUpTo(2, 3, 0), dealerHand \in HandsUpTo(2, 3, 2),
       chips \in {20, 1000}, bet \in FnBets :
        /\ NoCardTwice(playerHand, dealerHand)
        /\ CalculateHandTotal(playerHand).total <= 21
        /\ s = FnState(playerHand, dealerHand, chips, bet, "dealerTurn", FALSE)

\* The deck with the cards `out` dealt and the cards `tops` on top: the last
\* card of tops is the next one drawn.
DeckWithTop(out, tops) == DeckWithout(out \cup CardsOf(tops)) \o tops

\* The two cards on top of the deck.
FnTops == HandsOfLen(2, 3)

\* The dealer's hand while the player acts.
FnDealerUp == <<Card("diamonds", "7"), Card("clubs", "6")>>

\* The player's turn on the single hand: two or three cards, 21 at most.
FnActionState(s) ==
    \E playerHand \in HandsUpTo(2, 3, 0), tops \in FnTops,
       chips \in {20, 30, 1000}, bet \in FnBets :
        /\ NoCardTwice(playerHand \o tops, FnDealerUp)
        /\ CalculateHandTotal(playerHand).total <= 21
        /\ s = [FnState(playerHand, FnDealerUp, chips, bet, "playing", FALSE)
                  EXCEPT !.deck = DeckWithTop(CardsOf(playerHand) \cup CardsOf(FnDealerUp),
                                              tops)]

\* The status splitHit and splitStand leave on a split hand that is no
\* longer played.
DoneStatus(cards) ==
    IF CalculateHandTotal(cards).total > 21 THEN "bust" ELSE "stand"

\* A split hand still in play: the two cards of the split, or three cards
\* short of 21.
InPlay(cards) ==
    \/ Len(cards) = 2 /\ CalculateHandTotal(cards).total <= 21
    \/ Len(cards) = 3 /\ CalculateHandTotal(cards).total < 21

FnSplitBets == {15, 30}

\* The state of a split round: the pair, the two hands grown from it and
\* the chips left after the second stake.
FnSplitState(h0, h1, status0, status1, active, out, tops, dealerHand, bet, phase) ==
    [FnState(<<h0[1], h1[1]>>, dealerHand, 1000 - 2 * bet, bet, phase, FALSE)
       EXCEPT !.deck = DeckWithTop(out, tops),
              !.splitHands = << [cards |-> h0, bet |-> bet, status |-> status0],
                                [cards |-> h1, bet |-> bet, status |-> status1] >>,
              !.activeHandIndex = active]

\* The player's turn on a split of a pair other than Aces: hand 0 in play
\* with hand 1 waiting on its two cards, or hand 0 done and hand 1 in play.
FnSplitPlayState(s) ==
    \E h0 \in HandsUpTo(2, 3, 0), h1 \in HandsUpTo(2, 3, 1),
       tops \in HandsOfLen(1, 3), active \in {0, 1}, bet \in FnSplitBets :
        /\ h0[1].rank = h1[1].rank /\ h0[1].rank # "A"
        /\ NoCardTwice(h0 \o h1 \o tops, FnDealerUp)
        /\ IF active = 0 THEN InPlay(h0) /\ Len(h1) = 2
                         ELSE InPlay(h1)
        /\ s = FnSplitState(h0, h1,
                            IF active = 0 THEN "playing" ELSE DoneStatus(h0),
                            "playing", active,
                            CardsOf(h0) \cup CardsOf(h1) \cup CardsOf(FnDealerUp),
                            tops, FnDealerUp, bet, "playing")

\* A split round at the end of the dealer's turn: both hands done, the
\* dealer at 17 or more.  Split Aces hold two cards each.
FnSplitDealerState(s) ==
    \E h0 \in HandsUpTo(2, 3, 0), h1 \in HandsUpTo(2, 3, 1),
       dealerHand \in HandsUpTo(2, 3, 2), bet \in FnSplitBets :
        /\ h0[1].rank = h1[1].rank
        /\ h0[1].rank = "A" => Len(h0) = 2 /\ Len(h1) = 2
        /\ NoCardTwice(h0 \o h1, dealerHand)
        /\ CalculateHandTotal(dealerHand).total >= 17
        /\ s = FnSplitState(h0, h1, DoneStatus(h0), DoneStatus(h1),
                            IF h0[1].rank = "A" THEN 0 ELSE 1,
                            CardsOf(h0) \cup CardsOf(h1) \cup CardsOf(dealerHand),
                            <<>>, dealerHand, bet, "dealerTurn")

FnChipsLeft == {0, 5, 9, 10, 11, 1000}

\* A round just lost to a dealer standing on a higher total.
FnResultState(s) ==
    \E playerHand \in HandsOfLen(2, 0), dealerHand \in HandsOfLen(2, 2),
       chips \in FnChipsLeft, bet \in FnBets :
        /\ NoCardTwice(playerHand, dealerHand)
        /\ CalculateHandTotal(dealerHand).total >= 17
        /\ CalculateHandTotal(playerHand).total < CalculateHandTotal(dealerHand).total
        /\ s = [FnState(playerHand, dealerHand, chips, bet, "result", FALSE)
                  EXCEPT !.result = Result("lose", "Dealer wins.", -bet)]

\* The same round after checkGameOver found fewer than 10 chips.
FnGameOverState(s) ==
    \E playerHand \in HandsOfLen(2, 0), dealerHand \in HandsOfLen(2, 2),
       chips \in {0, 5, 9}, bet \in FnBets :
        /\ NoCardTwice(playerHand, dealerHand)
        /\ CalculateHandTotal(dealerHand).total >= 17
        /\ CalculateHandTotal(playerHand).total < CalculateHandTotal(dealerHand).total
        /\ s = [FnState(playerHand, dealerHand, chips, bet, "gameOver", FALSE)
                  EXCEPT !.result = Result("lose", "Dealer wins.", -bet)]

\* The ranks of value 10.
TenRanks == {"10", "J", "Q", "K"}

\* Just dealt two ten-value cards, with chips around the bet.
FnTensState(s) ==
    \E rank1 \in TenRanks, rank2 \in TenRanks, chips \in {14, 15, 16} :
        s = FnState(<<Card("spades", rank1), Card("hearts", rank2)>>, FnDealerUp,
                    chips, 15, "playing", FALSE)

\* The sizes of the deck before a deal.
FnDeckSizes == {9, 13, 14, 15, 16, 52}

\* A bet was accepted and no card is dealt yet: the deck is what earlier
\* rounds left of a shuffled deck.
FnDealState(s) ==
    \E seed \in Seeds, size \in FnDeckSizes, chips \in {0, 1000}, bet \in FnBets,
       reshuffled \in BOOLEAN :
        s = [FnState(<<>>, <<>>, chips, bet, "playing", reshuffled)
               EXCEPT !.deck = SubSeq(ShuffleDeck(CreateDeck, seed), 1, size)]

\* The hands handed to calculateHandTotal.
FnHands == { h \in HandsUpTo(0, MaxHandLen, 0) : NoCardTwice(h, <<>>) }

\* The amounts handed to placeBet.
FnAmounts ==
    { Int_(n) : n \in {-10, 0, 1, 9, 10, 11, 15, 100, 499, 500, 501, 1000, 1601} }
    \cup { Frac(10), Frac(0), NaN, Infinity, [k |-> "inf", v |-> -1] }

FnInit ==
    /\ \/ state = CreateGameState
       \/ FnBettingState(state)
       \/ FnPlayingState(state)
       \/ FnDealerTurnState(state)
       \/ FnActionState(state)
       \/ FnSplitPlayState(state)
       \/ FnSplitDealerState(state)
       \/ FnResultState(state)
       \/ FnDealState(state)
       \/ FnGameOverState(state)
       \/ FnTensState(state)
    /\ pc = "fn"
    /\ lastBet = 0
    /\ betError = NoError
    /\ op = "none"
    /\ arg = NoArg
    /\ ret = NoRet
    /\ chipsBefore = state.chips

(***************************************************************************)
(* What a call leaves in the state object it was handed.  An engine        *)
(* function writes to local containers only: deck (pop), stats (++ and the *)
(* assignment of peakChips), shuffled (the swaps).  Each is bound by a     *)
(* spread, [...state.deck] or { ...state.stats }, which makes a new        *)
(* container: the writes reach the caller's container only if the local    *)
(* one is the same object.                                                 *)
(***************************************************************************)
\* A spread that makes no copy: the local name is the caller's container.
Spread_SameObject(path) == [path |-> path, own |-> FALSE]

\* const deck = [...state.deck], const stats = { ...state.stats }
Spread(path) == [path |-> path, own |-> TRUE]

\* The functions with a deck.pop().
DeckWriters ==
    {"playerHit", "playerDouble", "dealerDrawOne", "playerSplit", "splitHit",
     "dealInitialCards"}

\* The functions with a stats.x++ or stats.peakChips = ...
StatsWriters == {"checkForBlackjack", "settleRound"}

\* The local deck when the function returns: the array it returns, unless
\* dealInitialCards rebound the name to a reshuffled deck.
LocalDeck(name, s, out) ==
    IF name = "dealInitialCards" /\ Len(s.deck) < 15 THEN s.deck ELSE out.deck

\* The local stats when the function returns: settleRound returns the
\* object itself, checkForBlackjack returns it (dealer natural) or a copy
\* with peakChips set; before any write checkForBlackjack has returned the
\* state that holds no natural.
LocalStats(name, s, out) ==
    IF name = "checkForBlackjack"
    THEN IF out = s THEN s.stats
         ELSE [out.stats EXCEPT !.peakChips = s.stats.peakChips]
    ELSE out.stats

\* The caller's state object after the call name(s) returned out.
InputAfter(name, s, out) ==
    [s EXCEPT !.deck = IF name \in DeckWriters /\ ~Spread("deck").own
                       THEN LocalDeck(name, s, out) ELSE @,
              !.stats = IF name \in StatsWriters /\ ~Spread("stats").own
                        THEN LocalStats(name, s, out) ELSE @]

\* The caller's array after shuffleDeck(deck) returned shuffled.
ArrayAfter(deck, shuffled) ==
    IF Spread("deck").own THEN deck ELSE shuffled

\* One call on the state drawn: the harness makes one call per state and
\* keeps the state it passed.
FnApplied(name, amount, returned) ==
    /\ pc = "fn"
    /\ op = "none"
    /\ op' = name
    /\ arg' = amount
    /\ ret' = returned
    /\ state' = InputAfter(name, state, returned)
    /\ UNCHANGED <<pc, lastBet, betError, chipsBefore>>

FnPlaceBet ==
    /\ state.phase = "betting"
    /\ \E amount \in FnAmounts : FnApplied("placeBet", amount, PlaceBet(state, amount))

FnCheckForBlackjack ==
    /\ state.phase = "playing" /\ ~IsSplit(state)
    /\ Len(state.playerHand) >= 2 /\ Len(state.dealerHand) = 2
    /\ FnApplied("checkForBlackjack", NoArg, CheckForBlackjack(state))

FnSettleRound ==
    /\ state.phase = "dealerTurn"
    /\ FnApplied("settleRound", NoArg, SettleRound(state))

FnCalculateHandTotal ==
    /\ state.phase = "welcome"
    /\ \E hand \in FnHands :
         FnApplied("calculateHandTotal", hand, CalculateHandTotal(hand))

\* The player's actions, each applied where getAvailableActions offers it.
FnPlayerHit ==
    /\ Len(state.playerHand) >= 2
    /\ GetAvailableActions(state).hit
    /\ FnApplied("playerHit", NoArg, PlayerHit(state))

FnPlayerDouble ==
    /\ GetAvailableActions(state).double
    /\ FnApplied("playerDouble", NoArg, PlayerDouble(state))

FnPlayerSplit ==
    /\ GetAvailableActions(state).split
    /\ FnApplied("playerSplit", NoArg, PlayerSplit(state))

FnSplitHit ==
    /\ GetAvailableActions(state).splitHit
    /\ FnApplied("splitHit", NoArg, SplitHit(state))

FnSplitStand ==
    /\ GetAvailableActions(state).splitStand
    /\ FnApplied("splitStand", NoArg, SplitStand(state))

FnCheckGameOver ==
    /\ state.phase = "result"
    /\ FnApplied("checkGameOver", NoArg, CheckGameOver(state))

\* The deal on a state with no card out; arg holds the seed of the shuffle.
FnDealInitialCards ==
    /\ state.phase = "playing" /\ state.playerHand = <<>>
    /\ \E seed \in Seeds :
         FnApplied("dealInitialCards", Int_(seed), DealInitialCards(state, seed))

FnPlayerStand ==
    /\ Len(state.playerHand) >= 2
    /\ GetAvailableActions(state).stand
    /\ FnApplied("playerStand", NoArg, PlayerStand(state))

\* The dealer's draw where main makes it, below 17, and on the split
\* rounds, whose dealer has 17 or more.
FnDealerDrawOne ==
    /\ state.phase = "dealerTurn"
    /\ state.deck # <<>>
    /\ ~IsDealerDone(state) \/ IsSplit(state)
    /\ FnApplied("dealerDrawOne", NoArg, DealerDrawOne(state))

\* The decks handed to shuffleDeck: the full deck, its first cards, a
\* deck holding a card twice.
FnDecks ==
    { SubSeq(CreateDeck, 1, n) : n \in {0, 1, 2, 3, 4, Len(CreateDeck)} }
    \cup { <<CreateDeck[1], CreateDeck[2], CreateDeck[1]>> }

\* The states Math.random is in when shuffleDeck is called.
FnRandomStates == { (977 * k) % RandomModulus : k \in 0..47 }

\* arg holds the array given and what the caller finds in it afterwards.
FnShuffleDeck ==
    /\ state.phase = "welcome"
    /\ \E deck \in FnDecks, x \in FnRandomStates :
         LET shuffled == ShuffleDeck(deck, x)
         IN  FnApplied("shuffleDeck",
                       [given |-> deck, left |-> ArrayAfter(deck, shuffled)],
                       shuffled)

FnCreateDeck ==
    /\ state.phase = "welcome"
    /\ FnApplied("createDeck", NoArg, CreateDeck)

\* The prompt asks for the actions in any state.
FnGetAvailableActions ==
    FnApplied("getAvailableActions", NoArg, GetAvailableActions(state))

FnNext ==
    \/ FnPlaceBet
    \/ FnCheckForBlackjack
    \/ FnSettleRound
    \/ FnCalculateHandTotal
    \/ FnPlayerHit
    \/ FnPlayerDouble
    \/ FnPlayerSplit
    \/ FnSplitHit
    \/ FnSplitStand
    \/ FnCheckGameOver
    \/ FnDealInitialCards
    \/ FnGetAvailableActions
    \/ FnPlayerStand
    \/ FnDealerDrawOne
    \/ FnShuffleDeck
    \/ FnCreateDeck

FnSpec == FnInit /\ [][FnNext]_vars

(***************************************************************************)
(* Properties.                                                             *)
(***************************************************************************)
\* The hand's total with every Ace counted as 1.
RECURSIVE AceLowTotal(_)
AceLowTotal(hand) ==
    IF hand = <<>> THEN 0
    ELSE (IF hand[1].rank = "A" THEN 1 ELSE hand[1].value) + AceLowTotal(Tail(hand))

NumAces(hand) == Cardinality({ i \in 1..Len(hand) : hand[i].rank = "A" })

\* The numbers of Aces that can count 11 without the total exceeding 21.
ElevenCounts(hand) == { k \in 0..NumAces(hand) : AceLowTotal(hand) + 10 * k <= 21 }

\* The number of Aces left at 11 when Aces are demoted one at a time from
\* all-eleven while the total exceeds 21: the largest count that fits, and
\* none when even the all-ones total exceeds 21.
ElevensKept(hand) ==
    IF ElevenCounts(hand) = {} THEN 0
    ELSE CHOOSE k \in ElevenCounts(hand) : \A j \in ElevenCounts(hand) : j <= k

FourAces(hand) == Len(hand) = 4 /\ \A i \in 1..4 : hand[i].rank = "A"

\* C10: calculateHandTotal returns the total with as many Aces at 11 as fit
\* under 21 (all Aces at 1 when nothing fits), which is the largest total
\* <= 21 whenever one exists; soft holds iff an Ace still counts 11; the
\* empty hand gives {0, false} and four Aces give {14, true}.
C10_HandTotal ==
    op = "calculateHandTotal" =>
        /\ ret.total = AceLowTotal(arg) + 10 * ElevensKept(arg)
        /\ ret.soft = (ElevensKept(arg) > 0)
        /\ ElevenCounts(arg) # {} =>
             /\ ret.total <= 21
             /\ \A k \in ElevenCounts(arg) : AceLowTotal(arg) + 10 * k <= ret.total
        /\ arg = <<>> => ret = [total |-> 0, soft |-> FALSE]
        /\ FourAces(arg) => ret = [total |-> 14, soft |-> TRUE]

\* Four Aces were evaluated.
C10_Witness == op = "calculateHandTotal" /\ FourAces(arg) /\ ret.total = 14

\* C8: placeBet accepts an amount iff it is an integer with
\* 10 <= amount <= 500 and amount <= chips; every other amount yields
\* {valid: false, error} and no state.
C8_BetValidation ==
    op = "placeBet" =>
        /\ ret.valid <=> /\ arg.k = "int"
                         /\ 10 <= arg.v /\ arg.v <= 500
                         /\ arg.v <= state.chips
        /\ ~ret.valid => DOMAIN ret = {"valid", "error"} /\ ret.error # ""
        /\ ret.valid => DOMAIN ret = {"valid", "state"}

\* An amount within the house limits was rejected for exceeding the chips.
C8_Witness ==
    /\ op = "placeBet" /\ ~ret.valid
    /\ arg.k = "int" /\ 10 <= arg.v /\ arg.v <= 500 /\ arg.v > state.chips

\* C9: an accepted placeBet returns a state with chips = chips - amount,
\* bet = amount, phase = playing and every other field as in the input.
C9_BetFrame ==
    op = "placeBet" /\ ret.valid =>
        /\ ret.state.chips = state.chips - arg.v
        /\ ret.state.bet = arg.v
        /\ ret.state.phase = "playing"
        /\ DOMAIN ret.state = DOMAIN state
        /\ \A f \in DOMAIN state \ {"chips", "bet", "phase"} : ret.state[f] = state[f]

\* A bet of all the chips was accepted on a state whose reshuffled flag is
\* set and whose bet field still holds the previous round's bet.
C9_Witness ==
    /\ op = "placeBet" /\ ret.valid
    /\ arg.v = state.chips /\ state.reshuffled /\ state.bet # 0
    /\ ret.state.chips = 0

\* A natural: two cards, an Ace and a ten-valued card.
Natural(hand) ==
    /\ Len(hand) = 2
    /\ \E i, j \in 1..2 : i # j /\ hand[i].rank = "A" /\ hand[j].value = 10

\* The counters of stats `after` are those of `before` with handsPlayed and
\* exactly the counters in `raised` one higher.
CountersRaised(before, after, raised) ==
    /\ after.handsPlayed = before.handsPlayed + 1
    /\ \A c \in {"handsWon", "handsLost", "handsPushed", "blackjacks"} :
         after[c] = before[c] + (IF c \in raised THEN 1 ELSE 0)

\* C4: a natural in the player's hand only pays bet * 1.5 rounded half up
\* (75 for 50, 45 for 30, 23 for 15): chips rise by bet + payout, the result
\* is a blackjack with chipChange = payout, phase becomes result, and
\* handsPlayed, handsWon and blackjacks each rise by exactly 1.
C4_PlayerNatural ==
    op = "checkForBlackjack" /\ Natural(state.playerHand) /\ ~Natural(state.dealerHand) =>
        LET payout == ret.result.chipChange
        IN  /\ 2 * payout - 1 <= 3 * state.bet
            /\ 3 * state.bet < 2 * payout + 1
            /\ state.bet = 50 => payout = 75
            /\ state.bet = 30 => payout = 45
            /\ state.bet = 15 => payout = 23
            /\ ret.chips = state.chips + state.bet + payout
            /\ ret.result.outcome = "blackjack"
            /\ ret.phase = "result"
            /\ CountersRaised(state.stats, ret.stats, {"handsWon", "blackjacks"})

\* A player-only natural on an odd bet of 15 was paid 23.
C4_Witness ==
    /\ op = "checkForBlackjack"
    /\ Natural(state.playerHand) /\ ~Natural(state.dealerHand)
    /\ state.bet = 15 /\ ret.result.chipChange = 23

\* C5: naturals in both hands end the round as a push (chips + bet,
\* chipChange 0, handsPlayed and handsPushed + 1, blackjacks unchanged); a
\* natural in the dealer's hand only ends it as a loss (chips unchanged,
\* chipChange -bet, handsPlayed and handsLost + 1); phase becomes result.
C5_DealerNatural ==
    op = "checkForBlackjack" /\ Natural(state.dealerHand) =>
        /\ ret.phase = "result"
        /\ IF Natural(state.playerHand)
           THEN /\ ret.chips = state.chips + state.bet
                /\ ret.result.outcome = "push"
                /\ ret.result.chipChange = 0
                /\ CountersRaised(state.stats, ret.stats, {"handsPushed"})
           ELSE /\ ret.chips = state.chips
                /\ ret.result.outcome = "lose"
                /\ ret.result.chipChange = -state.bet
                /\ CountersRaised(state.stats, ret.stats, {"handsLost"})

\* The check ran on a dealer-only natural, and the player lost the bet.
C5_Witness ==
    /\ op = "checkForBlackjack"
    /\ Natural(state.dealerHand) /\ ~Natural(state.playerHand)
    /\ ret.result.chipChange = -state.bet /\ state.bet > 0

PlayerTotal(s) == CalculateHandTotal(s.playerHand).total
DealerTotal(s) == CalculateHandTotal(s.dealerHand).total

SettledAs(outcome, chipChange, chips, counter) ==
    /\ ret.result.outcome = outcome
    /\ ret.result.chipChange = chipChange
    /\ ret.chips = chips
    /\ CountersRaised(state.stats, ret.stats, {counter})
    /\ ret.phase = "result"

\* C3 as stated: a lower player total loses and equal totals push, whatever
\* the dealer's total.
C3_AsStated ==
    op = "settleRound" /\ ~IsSplit(state) =>
        /\ DealerTotal(state) > 21 \/ PlayerTotal(state) > DealerTotal(state) =>
             SettledAs("win", state.bet, state.chips + 2 * state.bet, "handsWon")
        /\ PlayerTotal(state) < DealerTotal(state) =>
             SettledAs("lose", -state.bet, state.chips, "handsLost")
        /\ PlayerTotal(state) = DealerTotal(state) =>
             SettledAs("push", 0, state.chips + state.bet, "handsPushed")

\* C3 (amended): settleRound on a non-split state gives win (chipChange
\* +bet, chips + 2*bet) if the dealer total > 21 or the player total > the
\* dealer total; when the dealer total is at most 21 it gives lose
\* (chipChange -bet, chips unchanged) on a lower player total and push
\* (chipChange 0, chips + bet) on equal totals.  In every case phase becomes
\* result, handsPlayed rises by 1 and exactly one of handsWon, handsLost,
\* handsPushed rises by 1.
C3_Settle ==
    op = "settleRound" /\ ~IsSplit(state) =>
        /\ DealerTotal(state) > 21 \/ PlayerTotal(state) > DealerTotal(state) =>
             SettledAs("win", state.bet, state.chips + 2 * state.bet, "handsWon")
        /\ DealerTotal(state) <= 21 /\ PlayerTotal(state) < DealerTotal(state) =>
             SettledAs("lose", -state.bet, state.chips, "handsLost")
        /\ DealerTotal(state) <= 21 /\ PlayerTotal(state) = DealerTotal(state) =>
             SettledAs("push", 0, state.chips + state.bet, "handsPushed")
        /\ ret.phase = "result"
        /\ ret.stats.handsPlayed = state.stats.handsPlayed + 1

\* A round was settled with equal totals: a push.
C3_Witness ==
    /\ op = "settleRound" /\ ~IsSplit(state)
    /\ PlayerTotal(state) = DealerTotal(state) /\ DealerTotal(state) = 17
    /\ ret.result.outcome = "push"

\* The value of a hand, by the rule of the game: Aces count 11 while the
\* total stays at 21 or less.
BestTotal(hand) == AceLowTotal(hand) + 10 * ElevensKept(hand)

RoundOver(s) == s.phase = "result" \/ s.phase = "gameOver"

\* C1: chips >= 0 in every state of a session, and every accepted bet is at
\* most the chips held just before it.
C1_ChipsNonNegative ==
    /\ state.chips >= 0
    /\ op = "placeBet" /\ ret.valid =>
         /\ state.bet = arg.v
         /\ state.bet <= chipsBefore
         /\ state.chips = chipsBefore - state.bet

\* A bet of all the chips held was accepted after at least one hand.
C1_Witness ==
    /\ op = "placeBet" /\ ret.valid
    /\ state.chips = 0 /\ state.stats.handsPlayed > 0

RECURSIVE SumSplitChipChange(_)
SumSplitChipChange(hands) ==
    IF hands = <<>> THEN 0
    ELSE hands[1].result.chipChange + SumSplitChipChange(Tail(hands))

\* C2: a hand over 21 loses its full stake.  A busted single hand ends the
\* round at once as a bust with chipChange = -bet, chips staying at the
\* chips before the bet less the stake, and is never settled against the
\* dealer; a busted split hand has status bust, is settled as lose with
\* chipChange = -bet whatever the dealer's total, and the chips after the
\* settlement are the chips before the bet plus the hands' chip changes.
C2_BustLoses ==
    IF ~IsSplit(state)
    THEN BestTotal(state.playerHand) > 21 =>
            /\ RoundOver(state)
            /\ op \in {"playerHit", "playerDouble", "playerLoopExit", "checkGameOver"}
            /\ state.result.outcome = "bust"
            /\ state.result.chipChange = -state.bet
            /\ state.chips = chipsBefore - state.bet
    ELSE /\ \A i \in 1..Len(state.splitHands) :
              BestTotal(state.splitHands[i].cards) > 21 =>
                 /\ state.splitHands[i].status = "bust"
                 /\ RoundOver(state) =>
                      /\ state.splitHands[i].result.outcome = "lose"
                      /\ state.splitHands[i].result.chipChange = -state.splitHands[i].bet
         /\ RoundOver(state) =>
              state.chips = chipsBefore + SumSplitChipChange(state.splitHands)

\* A split round was settled with a busted split hand against a busted dealer.
C2_Witness ==
    /\ op = "settleRound" /\ IsSplit(state)
    /\ BestTotal(state.dealerHand) > 21
    /\ \E i \in 1..Len(state.splitHands) : BestTotal(state.splitHands[i].cards) > 21

\* The hand without its last card.
Front(hand) == SubSeq(hand, 1, Len(hand) - 1)

\* C6: isDealerDone holds exactly when the dealer's total is >= 17; the
\* dealer draws only with a total below 17, and the round is settled after
\* dealer play only with a dealer total from 17 to 26.
C6_DealerRule ==
    /\ state.dealerHand # <<>> =>
         (IsDealerDone(state) <=> BestTotal(state.dealerHand) >= 17)
    /\ op = "dealerDrawOne" =>
         /\ Len(state.dealerHand) >= 3
         /\ BestTotal(Front(state.dealerHand)) < 17
    /\ op = "settleRound" =>
         /\ BestTotal(state.dealerHand) >= 17
         /\ BestTotal(state.dealerHand) <= 26

\* The round was settled after the dealer stood on a soft 17.
C6_Witness ==
    /\ op = "settleRound"
    /\ CalculateHandTotal(state.dealerHand) = [total |-> 17, soft |-> TRUE]

PlayerOps ==
    {"playerHit", "playerStand", "playerDouble", "playerSplit", "splitHit", "splitStand"}

\* Every player hand is resolved: a single hand is not over 21, no split
\* hand is still playing.
HandsResolved(s) ==
    IF IsSplit(s)
    THEN \A i \in 1..Len(s.splitHands) : s.splitHands[i].status # "playing"
    ELSE BestTotal(s.playerHand) <= 21

C7_Step ==
    /\ op' = "dealInitialCards" => op = "placeBet" /\ ret.valid
    /\ op' = "checkForBlackjack" => op = "dealInitialCards"
    /\ op' \in PlayerOps =>
         /\ state.phase = "playing"
         /\ op \in PlayerOps \cup {"checkForBlackjack"}
    /\ op' = "dealerDrawOne" =>
         /\ state.phase = "dealerTurn" /\ HandsResolved(state)
         /\ op \in {"playerLoopExit", "dealerDrawOne"}
    /\ op' = "settleRound" =>
         /\ state.phase = "dealerTurn" /\ HandsResolved(state)
         /\ IsDealerDone(state)
         /\ op \in {"playerLoopExit", "dealerDrawOne"}
    /\ state.phase # "result" /\ state'.phase = "result" =>
         op' \in {"checkForBlackjack", "playerHit", "playerDouble", "settleRound"}
    /\ op' = "checkGameOver" => state.phase = "result" /\ op # "checkGameOver"
    /\ state.phase = "result" /\ op # "checkGameOver" =>
         \/ op' = "checkGameOver"
         \/ op' = "playerLoopExit" /\ state' = state
    /\ op' = "placeBet" =>
         /\ state.phase = "betting"
         /\ op \in {"start", "nextHand", "restart", "placeBet", "betRefused"}

\* C7: in each round the operations occur in the order deal, blackjack
\* check, player actions, dealer draws, settlement, game-over check: the
\* round is settled only after every player hand is resolved and the dealer
\* is done, no player action is applied once the phase has left playing,
\* and checkGameOver follows every transition into result before the next
\* bet.
C7_RoundOrder == [][C7_Step]_vars

\* A split round went through dealer draws, settlement and the game-over
\* check.
C7_Witness ==
    /\ pc = "nextHand" /\ op = "checkGameOver"
    /\ IsSplit(state) /\ Len(state.dealerHand) > 2

\* C11: playerHit moves the top card of the deck to the end of playerHand;
\* a new total over 21 ends the round as a bust (result bust with
\* chipChange = -bet, handsPlayed and handsLost + 1), a new total of 21
\* moves the phase to dealerTurn with result and stats unchanged, any other
\* total leaves the phase at playing; chips, bet and dealerHand never change.
C11_PlayerHit ==
    op = "playerHit" =>
        LET hand == Append(state.playerHand, Top(state.deck))
            total == BestTotal(hand)
        IN  /\ ret.playerHand = hand
            /\ ret.deck = Front(state.deck)
            /\ ret.chips = state.chips
            /\ ret.bet = state.bet
            /\ ret.dealerHand = state.dealerHand
            /\ total > 21 =>
                 /\ ret.phase = "result"
                 /\ ret.result.outcome = "bust"
                 /\ ret.result.chipChange = -state.bet
                 /\ CountersRaised(state.stats, ret.stats, {"handsLost"})
            /\ total = 21 =>
                 /\ ret.phase = "dealerTurn"
                 /\ ret.result = state.result
                 /\ ret.stats = state.stats
            /\ total < 21 =>
                 /\ ret.phase = "playing"
                 /\ ret.result = state.result
                 /\ ret.stats = state.stats

\* A hit on a three-card hand drew the card that makes 21.
C11_Witness ==
    /\ op = "playerHit" /\ Len(state.playerHand) = 3
    /\ BestTotal(ret.playerHand) = 21 /\ ret.phase = "dealerTurn"

\* C12: playerDouble draws exactly one card into playerHand, doubles bet,
\* takes the original bet from chips and never leaves the phase at playing:
\* a new total over 21 ends the round (result bust with chipChange = minus
\* the doubled bet, handsPlayed and handsLost + 1), any other total moves
\* the phase to dealerTurn with result and stats unchanged.
C12_PlayerDouble ==
    op = "playerDouble" =>
        LET hand == Append(state.playerHand, Top(state.deck))
            total == BestTotal(hand)
        IN  /\ ret.playerHand = hand
            /\ ret.deck = Front(state.deck)
            /\ ret.bet = 2 * state.bet
            /\ ret.chips = state.chips - state.bet
            /\ ret.dealerHand = state.dealerHand
            /\ ret.phase # "playing"
            /\ total > 21 =>
                 /\ ret.phase = "result"
                 /\ ret.result.outcome = "bust"
                 /\ ret.result.chipChange = -(2 * state.bet)
                 /\ CountersRaised(state.stats, ret.stats, {"handsLost"})
            /\ total <= 21 =>
                 /\ ret.phase = "dealerTurn"
                 /\ ret.result = state.result
                 /\ ret.stats = state.stats

\* A double with all the chips left drew a card that busts the hand.
C12_Witness ==
    /\ op = "playerDouble" /\ state.chips = state.bet
    /\ BestTotal(ret.playerHand) > 21 /\ ret.chips = 0
    /\ ret.result.chipChange = -ret.bet

\* The deck without its last n cards.
FrontBy(deck, n) == SubSeq(deck, 1, Len(deck) - n)

AcesSplit(s) == IsSplit(s) /\ s.playerHand[1].rank = "A"

\* C14: splitting a pair of Aces marks both split hands stand at once and
\* moves the phase straight to dealerTurn; from then on no splitHit is
\* available and no card is added to either hand, so each split-Ace hand
\* holds exactly two cards up to and at settlement.
C14_SplitAces ==
    AcesSplit(state) =>
        /\ Len(state.splitHands) = 2
        /\ \A i \in 1..2 :
             /\ Len(state.splitHands[i].cards) = 2
             /\ state.splitHands[i].cards[1].rank = "A"
             /\ state.splitHands[i].status = "stand"
        /\ state.phase # "playing"
        /\ ~GetAvailableActions(state).splitHit
        /\ op \notin {"splitHit", "splitStand"}
        /\ op = "playerSplit" => state.phase = "dealerTurn"

\* A split of Aces was settled once the dealer's turn was over.
C14_Witness ==
    /\ AcesSplit(state) /\ op = "settleRound"
    /\ state.phase = "result" /\ state.result.outcome = "split"

\* The position in splitHands of the hand activeHandIndex points to, and of
\* the other hand.
ActivePos(s) == s.activeHandIndex + 1
OtherPos(s) == 2 - s.activeHandIndex

\* C15: splitHit adds exactly one card, the top of the deck, to the split
\* hand at activeHandIndex and sets its status to bust over 21, stand at 21
\* and playing otherwise; splitStand sets the active hand's status to stand
\* and draws no card.  Neither changes the other split hand, nor chips, bet
\* or dealerHand.
C15_SplitHitStand ==
    op \in {"splitHit", "splitStand"} =>
        LET before == state.splitHands[ActivePos(state)]
            after == ret.splitHands[ActivePos(state)]
            cards == Append(before.cards, Top(state.deck))
            total == BestTotal(cards)
        IN  /\ Len(ret.splitHands) = 2
            /\ ret.splitHands[OtherPos(state)] = state.splitHands[OtherPos(state)]
            /\ after.bet = before.bet
            /\ ret.chips = state.chips
            /\ ret.bet = state.bet
            /\ ret.dealerHand = state.dealerHand
            /\ op = "splitHit" =>
                 /\ after.cards = cards
                 /\ ret.deck = Front(state.deck)
                 /\ after.status = IF total > 21 THEN "bust"
                                   ELSE IF total = 21 THEN "stand" ELSE "playing"
            /\ op = "splitStand" =>
                 /\ after.cards = before.cards
                 /\ ret.deck = state.deck
                 /\ after.status = "stand"

\* With hand 0 bust, a hit on hand 1 drew the card that makes 21.
C15_Witness ==
    /\ op = "splitHit" /\ state.activeHandIndex = 1
    /\ state.splitHands[1].status = "bust"
    /\ ret.splitHands[1].status = "bust"
    /\ Len(ret.splitHands[2].cards) > Len(state.splitHands[2].cards)
    /\ ret.splitHands[2].status = "stand"

SplitHandsDone(s) == \A i \in 1..Len(s.splitHands) : s.splitHands[i].status # "playing"

\* The pointer of a split round agrees with the hands' statuses.
SplitPointerOk(s) ==
    IsSplit(s) =>
        /\ Len(s.splitHands) = 2
        /\ s.phase \in {"playing", "dealerTurn"} =>
             (s.phase = "dealerTurn" <=> SplitHandsDone(s))
        /\ s.phase = "playing" =>
             /\ s.activeHandIndex \in {0, 1}
             /\ s.splitHands[ActivePos(s)].status = "playing"
        /\ s.activeHandIndex = 1 => s.splitHands[1].status # "playing"

C16_Step ==
    /\ SplitPointerOk(state')
    /\ IsSplit(state) /\ IsSplit(state') =>
         /\ state'.activeHandIndex >= state.activeHandIndex
         /\ \A i \in 1..2 :
              state.splitHands[i].status # "playing" =>
                  state'.splitHands[i].status = state.splitHands[i].status

\* C16: after playerSplit and any splitHit and splitStand that follow, the
\* phase is dealerTurn iff neither split hand is still playing; while the
\* phase is playing, activeHandIndex is 0 or 1 and points to a hand that is
\* playing; the pointer never moves backwards (hand 0 is finished before
\* hand 1 is played), and a finished hand never returns to playing.
C16_SplitPointer == [][C16_Step]_vars

\* A bust on hand 0 moved the pointer to hand 1 with the round still in play.
C16_Witness ==
    /\ IsSplit(state) /\ op = "splitHit" /\ state.phase = "playing"
    /\ state.activeHandIndex = 1 /\ state.splitHands[1].status = "bust"
    /\ state.splitHands[2].status = "playing"

\* The split hands of the settled round with the given outcome.
HandsWith(outcome) ==
    { i \in 1..Len(ret.splitHands) : ret.splitHands[i].result.outcome = outcome }

\* What a settled split hand returns to the chips: twice its bet on a win,
\* its bet on a push.
RECURSIVE PaidBack(_)
PaidBack(hands) ==
    IF hands = <<>> THEN 0
    ELSE (IF hands[1].result.outcome = "win" THEN 2 * hands[1].bet
          ELSE IF hands[1].result.outcome = "push" THEN hands[1].bet
          ELSE 0) + PaidBack(Tail(hands))

\* Split hand i was settled with the given outcome and chip change, and is
\* otherwise as it was.
SplitHandSettledAs(i, outcome, chipChange) ==
    /\ ret.splitHands[i].result.outcome = outcome
    /\ ret.splitHands[i].result.chipChange = chipChange
    /\ ret.splitHands[i].cards = state.splitHands[i].cards
    /\ ret.splitHands[i].bet = state.splitHands[i].bet
    /\ ret.splitHands[i].status = state.splitHands[i].status

\* The round-level part of a split settlement: chips, counters and result
\* follow from the hands' outcomes.
SplitRoundTotals ==
    /\ Len(ret.splitHands) = 2
    /\ \A i \in 1..2 : ret.splitHands[i].result.outcome \in {"win", "lose", "push"}
    /\ ret.chips = state.chips + PaidBack(ret.splitHands)
    /\ ret.stats.handsPlayed = state.stats.handsPlayed + 2
    /\ ret.stats.handsWon = state.stats.handsWon + Cardinality(HandsWith("win"))
    /\ ret.stats.handsLost = state.stats.handsLost + Cardinality(HandsWith("lose"))
    /\ ret.stats.handsPushed = state.stats.handsPushed + Cardinality(HandsWith("push"))
    /\ ret.result.outcome = "split"
    /\ ret.result.chipChange = SumSplitChipChange(ret.splitHands)
    /\ ret.phase = "result"

\* C17 as stated: a split hand that is not bust loses on a lower total,
\* whatever the dealer's total.
C17_AsStated ==
    op = "settleRound" /\ IsSplit(state) =>
        /\ SplitRoundTotals
        /\ \A i \in 1..2 :
             LET hand == state.splitHands[i]
                 total == BestTotal(hand.cards)
                 dealer == DealerTotal(state)
             IN  /\ hand.status = "bust" => SplitHandSettledAs(i, "lose", -hand.bet)
                 /\ hand.status # "bust" =>
                      /\ dealer > 21 \/ total > dealer =>
                           SplitHandSettledAs(i, "win", hand.bet)
                      /\ total < dealer => SplitHandSettledAs(i, "lose", -hand.bet)
                      /\ total = dealer => SplitHandSettledAs(i, "push", 0)

\* C17 (amended): settleRound on a split state settles each of the two
\* split hands against the one dealer hand with the hand's own bet: a hand
\* with status bust loses; otherwise it wins on a dealer bust or a higher
\* total and, when the dealer is at 21 or less, loses on a lower total and
\* pushes on an equal total.  chips rise by 2*bet per winning hand and by
\* bet per pushed hand, handsPlayed rises by exactly 2, handsWon, handsLost
\* and handsPushed rise once per hand by its outcome, each hand carries its
\* own result, and the round result is split with the sum of the hands'
\* chip changes.
C17_SettleSplit ==
    op = "settleRound" /\ IsSplit(state) =>
        /\ SplitRoundTotals
        /\ \A i \in 1..2 :
             LET hand == state.splitHands[i]
                 total == BestTotal(hand.cards)
                 dealer == DealerTotal(state)
             IN  /\ hand.status = "bust" => SplitHandSettledAs(i, "lose", -hand.bet)
                 /\ hand.status # "bust" =>
                      /\ dealer > 21 \/ total > dealer =>
                           SplitHandSettledAs(i, "win", hand.bet)
                      /\ dealer <= 21 /\ total < dealer =>
                           SplitHandSettledAs(i, "lose", -hand.bet)
                      /\ dealer <= 21 /\ total = dealer =>
                           SplitHandSettledAs(i, "push", 0)

\* A split round was settled with one hand winning and the other pushing.
C17_Witness ==
    /\ op = "settleRound" /\ IsSplit(state)
    /\ ret.splitHands[1].result.outcome = "win"
    /\ ret.splitHands[2].result.outcome = "push"
    /\ ret.chips = state.chips + 3 * state.bet

C18_Step ==
    /\ state'.stats.blackjacks # state.stats.blackjacks =>
         /\ op' = "checkForBlackjack" /\ op = "dealInitialCards"
         /\ ~IsSplit(state)
         /\ state'.stats.blackjacks = state.stats.blackjacks + 1
    /\ op' = "settleRound" /\ IsSplit(state) =>
         /\ state'.chips = state.chips + PaidBack(state'.splitHands)
         /\ \A i \in 1..Len(state.splitHands) :
              BestTotal(state.splitHands[i].cards) = 21 =>
                  LET settled == state'.splitHands[i]
                  IN  /\ settled.result.outcome \in {"win", "push"}
                      /\ settled.result.outcome = "win" =>
                           settled.result.chipChange = settled.bet
                      /\ settled.result.outcome = "push" =>
                           settled.result.chipChange = 0

\* C18: a split hand totalling 21, the two-card 21 on a split Ace or ten
\* included, is never a blackjack: when it wins it is paid 1:1 (chips rise
\* by twice the hand's bet), never 3:2, and it never raises
\* stats.blackjacks, which changes only in checkForBlackjack directly after
\* the initial deal.
C18_SplitNoBlackjack == [][C18_Step]_vars

\* A split of Aces was settled with a two-card 21 winning at 1:1.
C18_Witness ==
    /\ AcesSplit(state) /\ op = "settleRound"
    /\ \E i \in 1..2 :
         /\ Natural(state.splitHands[i].cards)
         /\ state.splitHands[i].result.outcome = "win"
         /\ state.splitHands[i].result.chipChange = state.splitHands[i].bet

\* C19: checkGameOver returns a state with phase gameOver iff chips < 10
\* (9 chips end the game, exactly 10 do not); with chips >= 10 it returns
\* the input state, and with chips < 10 every field but phase is unchanged.
C19_CheckGameOver ==
    op = "checkGameOver" =>
        /\ ret.phase = "gameOver" <=> state.chips < 10
        /\ state.chips = 9 => ret.phase = "gameOver"
        /\ state.chips = 10 => ret.phase # "gameOver"
        /\ state.chips >= 10 => ret = state
        /\ state.chips < 10 =>
             /\ DOMAIN ret = DOMAIN state
             /\ \A f \in DOMAIN state \ {"phase"} : ret[f] = state[f]

\* The check ran on exactly 10 chips and the game goes on.
C19_Witness ==
    /\ op = "checkGameOver" /\ state.chips = 10
    /\ state.phase = "result" /\ ret = state

\* The deck the four cards of ret were dealt from: the deck left with the
\* cards dealt put back on top, the first one dealt last.
DealtFrom ==
    ret.deck \o <<ret.dealerHand[2], ret.dealerHand[1],
                  ret.playerHand[2], ret.playerHand[1]>>

\* A full deck in some order: 52 cards, each card of createDeck once.
FullDeck(deck) == Len(deck) = 52 /\ CardsOf(deck) = CardsOf(CreateDeck)

\* C20: dealInitialCards replaces the deck by a freshly shuffled 52-card
\* deck iff the deck holds fewer than 15 cards (14 reshuffles, 15 does
\* not); it then deals exactly four cards from the top, the first two drawn
\* to the player and the next two to the dealer, leaving 48 cards after a
\* reshuffle and four fewer than before otherwise; phase becomes playing
\* and chips, bet and stats are unchanged.
C20_Deal ==
    op = "dealInitialCards" =>
        LET size == Len(state.deck)
        IN  /\ Len(ret.playerHand) = 2 /\ Len(ret.dealerHand) = 2
            /\ size < 15 =>
                 /\ FullDeck(DealtFrom)
                 /\ Len(ret.deck) = 48
            /\ size >= 15 =>
                 /\ DealtFrom = state.deck
                 /\ Len(ret.deck) = size - 4
            /\ size = 14 => DealtFrom # state.deck
            /\ size = 15 => Len(ret.deck) = 11
            /\ ret.phase = "playing"
            /\ ret.chips = state.chips
            /\ ret.bet = state.bet
            /\ ret.stats = state.stats

\* The deal ran on a deck of 14 cards and left 48.
C20_Witness ==
    /\ op = "dealInitialCards" /\ Len(state.deck) = 14
    /\ Len(ret.deck) = 48 /\ ret.phase = "playing"

(***************************************************************************)
(* C21.  In a session, after each dealInitialCards the reshuffled flag is  *)
(* true if and only if that deal replaced the deck, and the flag raised by *)
(* one deal is cleared before the next deal on every path (blackjack       *)
(* ending, game over and restart, bust, normal settlement).                *)
(***************************************************************************)
\* The deal just made took its four cards from a fresh deck of 52; the
\* session's first deal does so without replacing anything.
DeckReplaced ==
    /\ Len(state.deck) = Len(CreateDeck) - 4
    /\ state.stats.handsPlayed > 0

C21_ReshuffledFlag ==
    /\ op = "dealInitialCards" => (state.reshuffled <=> DeckReplaced)
    /\ pc = "deal" => ~state.reshuffled

\* A deal that replaced nothing, shown as a reshuffle.
C21_StaleFlag ==
    /\ op = "dealInitialCards"
    /\ state.reshuffled
    /\ ~DeckReplaced


(***************************************************************************)
(* C22.  The engine never fails for lack of cards: in every session round  *)
(* every draw (playerHit, playerDouble, playerSplit, splitHit,             *)
(* dealerDrawOne) is made from a non-empty deck, so every element of every *)
(* hand is a real card and every operation returns a state; a deck of at   *)
(* least 15 cards at deal time suffices for the whole round.               *)
(***************************************************************************)
RealCards(hand) == \A i \in 1..Len(hand) : hand[i] # Undefined

C22_CardsSuffice ==
    /\ pc # "fatal"
    /\ RealCards(state.playerHand)
    /\ RealCards(state.dealerHand)
    /\ \A i \in 1..Len(state.splitHands) : RealCards(state.splitHands[i].cards)

\* The round was dealt from the 15 cards left, and a draw found none.
C22_OutOfCards ==
    /\ pc = "fatal"
    /\ state.deck = <<>>
    /\ ~state.reshuffled
    /\ state.stats.handsPlayed = LateStats.handsPlayed

(***************************************************************************)
(* C23.  Outside an active split, getAvailableActions reports              *)
(* hit = (phase is playing and player total < 21), stand = (phase is       *)
(* playing), double = (phase is playing, exactly 2 cards, chips >= bet),   *)
(* split = (phase is playing, exactly 2 cards of equal rank, chips >= bet);*)
(* two ten-value cards of different rank cannot be split, and chips        *)
(* exactly equal to bet is sufficient.                                     *)
(***************************************************************************)
ActiveSplit(s) == IsSplit(s) /\ s.phase = "playing"

TwoCards(s) == s.phase = "playing" /\ Len(s.playerHand) = 2

SameRank(s) == s.playerHand[1].rank = s.playerHand[2].rank

ActiveHand(s) == s.splitHands[ActivePos(s)]

C24_SplitActions ==
    /\ op = "getAvailableActions" => ret.quit
    /\ op = "getAvailableActions" /\ ActiveSplit(state) =>
        /\ ~ret.hit /\ ~ret.stand /\ ~ret.double /\ ~ret.split
        /\ ret.splitStand = (ActiveHand(state).status = "playing")
        /\ ret.splitHit = (/\ ActiveHand(state).status = "playing"
                           /\ CalculateHandTotal(ActiveHand(state).cards).total < 21)
    /\ op \in {"playerHit", "playerDouble", "playerSplit"} => ~IsSplit(state)

\* A split hand of 21 still in play: it may stand and may not hit.
C24_Witness ==
    /\ op = "getAvailableActions"
    /\ ActiveSplit(state)
    /\ ActiveHand(state).status = "playing"
    /\ CalculateHandTotal(ActiveHand(state).cards).total = 21
    /\ ret.splitStand /\ ~ret.splitHit /\ ret.quit

(***************************************************************************)
(* C25.  The counters handsPlayed, handsWon, handsLost, handsPushed and    *)
(* blackjacks never decrease across a step of a session and change only at *)
(* settlement points (a natural in checkForBlackjack, a bust in playerHit  *)
(* or playerDouble, settleRound); handsPlayed rises by exactly 1 per       *)
(* non-split round and exactly 2 per split round, and betting, dealing,    *)
(* standing, non-busting hits, splitting, split actions, dealer draws and  *)
(* the game-over restart leave all counters unchanged.                     *)
(***************************************************************************)
Counters == {"handsPlayed", "handsWon", "handsLost", "handsPushed", "blackjacks"}

\* The step ends the round: one of the three settlement points.
Settles ==
    /\ state.phase # "result"
    /\ state'.phase = "result"
    /\ \/ op' = "checkForBlackjack"
          /\ (Natural(state.playerHand) \/ Natural(state.dealerHand))
       \/ op' \in {"playerHit", "playerDouble"} /\ PlayerTotal(state') > 21
       \/ op' = "settleRound"

CountersKept == \A c \in Counters : state'.stats[c] = state.stats[c]

C25_Step ==
    LET before == state.stats
        after == state'.stats
        hands == IF IsSplit(state') THEN 2 ELSE 1
        Rise(c) == after[c] - before[c]
    IN  /\ \A c \in Counters : after[c] >= before[c]
        /\ ~Settles => CountersKept
        /\ Settles =>
             /\ Rise("handsPlayed") = hands
             /\ Rise("handsWon") + Rise("handsLost") + Rise("handsPushed") = hands
             /\ Rise("blackjacks") <= 1
        \* one settlement per round: the next one needs a new bet
        /\ state.phase \in {"result", "gameOver", "betting"} /\ op' # "placeBet"
               => CountersKept

C25_Counters == [][C25_Step]_vars

\* A split round is settled: handsPlayed is two more than when it was bet.
C25_Witness ==
    /\ op = "settleRound"
    /\ IsSplit(state)
    /\ state.phase = "result"
    /\ state.stats.handsPlayed >= 3
    /\ state.stats.handsWon + state.stats.handsLost + state.stats.handsPushed
         = state.stats.handsPlayed

(***************************************************************************)
(* C26.  stats.peakChips never decreases, and every operation that changes *)
(* chips at a settlement point sets peakChips to the maximum of its        *)
(* previous value and the new chip count; so peakChips >= chips holds in   *)
(* every reachable session state, also after a game-over restart that      *)
(* resets chips to 1000.                                                   *)
(***************************************************************************)
C26_Step ==
    /\ state'.stats.peakChips >= state.stats.peakChips
    /\ Settles => state'.stats.peakChips = Max(state.stats.peakChips, state'.chips)
    /\ ~Settles => state'.stats.peakChips = state.stats.peakChips

C26_PeakChips == [](state.stats.peakChips >= state.chips) /\ [][C26_Step]_vars

\* A win has raised the peak over the starting chips.
C26_Witness ==
    /\ state.phase = "result"
    /\ state.stats.peakChips > 1000
    /\ state.stats.peakChips = state.chips

\* The session was restarted after a game over.
C26_Restarted ==
    /\ op = "restart"
    /\ state.chips = 1000
    /\ state.stats.peakChips >= 1000

(***************************************************************************)
(* C27.  When neither the player nor the dealer holds a natural (a         *)
(* two-card 21), checkForBlackjack returns its input state: no field       *)
(* changes, the phase stays playing, and applying it again gives the same  *)
(* state; a 21 made of three or more cards is not a natural.               *)
(***************************************************************************)
C27_NoNatural ==
    op = "checkForBlackjack" =>
        /\ ~Natural(state.playerHand) /\ ~Natural(state.dealerHand) =>
             /\ ret = state
             /\ ret.phase = "playing"
             /\ CheckForBlackjack(ret) = state
             /\ CheckForBlackjack(CheckForBlackjack(ret)) = state
        /\ Len(state.playerHand) >= 3 => ~IsBlackjack(state.playerHand)

\* Three cards make 21 and the state comes back as it went in.
C27_Witness ==
    /\ op = "checkForBlackjack"
    /\ Len(state.playerHand) = 3
    /\ PlayerTotal(state) = 21
    /\ ret = state

(***************************************************************************)
(* C28.  splitHands is present if and only if a split has occurred in the  *)
(* current round: absent from the start of the betting phase until         *)
(* playerSplit is applied, present from then until the round's result, and *)
(* absent again when the next round begins; while it is present only       *)
(* splitHit, splitStand and the split settlement act on the player's cards *)
(* and playerHand is no longer modified.                                   *)
(***************************************************************************)
\* The steps that begin a round.
RoundBegins == op' \in {"start", "nextHand", "restart"}

C28_Step ==
    /\ ~IsSplit(state) /\ IsSplit(state') => op' = "playerSplit"
    /\ op' = "playerSplit" => ~IsSplit(state) /\ IsSplit(state')
    /\ IsSplit(state) /\ ~IsSplit(state') => RoundBegins /\ RoundOver(state)
    /\ RoundBegins => ~IsSplit(state')
    /\ IsSplit(state) /\ ~RoundBegins =>
         /\ state'.playerHand = state.playerHand
         /\ op' \notin {"playerHit", "playerStand", "playerDouble", "playerSplit"}
         /\ state'.splitHands # state.splitHands =>
                op' \in {"splitHit", "splitStand", "settleRound"}

C28_SplitHands ==
    /\ [](state.phase \in {"welcome", "betting"} => ~IsSplit(state))
    /\ [][C28_Step]_vars

\* A split hand has grown to three cards and playerHand is still the pair.
C28_Witness ==
    /\ IsSplit(state)
    /\ op = "splitHit"
    /\ Len(state.splitHands[1].cards) >= 3
    /\ state.playerHand = <<state.splitHands[1].cards[1], state.splitHands[2].cards[1]>>

(***************************************************************************)
(* C29.  Between rounds the session driver resets playerHand, dealerHand,  *)
(* splitHands and result (and activeHandIndex to 0) and carries chips,     *)
(* deck and stats over unchanged from the end of the previous round into   *)
(* the next betting phase.                                                 *)
(***************************************************************************)
\* A step from the end of a round into the next betting phase.
NextRound == RoundOver(state) /\ state'.phase = "betting"

HandsCleared ==
    /\ state'.playerHand = <<>>
    /\ state'.dealerHand = <<>>
    /\ state'.splitHands = <<>>
    /\ state'.result = NoResult
    /\ state'.activeHandIndex = 0

\* As stated: chips are carried over into every next betting phase.
C29_AsStated_Step ==
    NextRound =>
        /\ HandsCleared
        /\ state'.chips = state.chips
        /\ state'.deck = state.deck
        /\ state'.stats = state.stats

C29_AsStated == [][C29_AsStated_Step]_vars

\* Amended: after a game over the chips start again at 1000.
C29_Step ==
    NextRound =>
        /\ HandsCleared
        /\ state'.deck = state.deck
        /\ state'.stats = state.stats
        /\ state'.chips = IF state.phase = "gameOver" THEN 1000 ELSE state.chips
        /\ state.phase = "gameOver" => state.chips < 10

C29_RoundReset == [][C29_Step]_vars

\* A new round after a game over: 1000 chips, the statistics of the session.
C29_Witness ==
    /\ op = "restart"
    /\ state.phase = "betting"
    /\ state.chips = 1000
    /\ state.stats.handsLost > 0
    /\ state.playerHand = <<>> /\ state.result = NoResult
    /\ Len(state.deck) < Len(CreateDeck)

(***************************************************************************)
(* C30.  Whenever the session is in the betting phase chips >= 10, so at   *)
(* least one bet amount is accepted by placeBet and play can continue; the *)
(* session enters gameOver exactly when chips < 10 after a round's result, *)
(* on every ending path (natural, bust, settlement).                       *)
(***************************************************************************)
C30_Step ==
    /\ state'.phase = "gameOver" /\ state.phase # "gameOver" =>
         state.phase = "result" /\ state.chips < 10 /\ op' = "checkGameOver"
    /\ state.phase = "result" /\ state'.phase # "result" =>
         /\ op = "checkGameOver" \/ op' = "checkGameOver"
         /\ state'.phase = "gameOver" <=> state.chips < 10

C30_GameOver ==
    /\ [](state.phase = "betting" =>
            state.chips >= 10 /\ PlaceBet(state, Int_(10)).valid)
    /\ [][C30_Step]_vars

\* The last chips were lost: the session is over and no bet was possible.
C30_Witness ==
    /\ state.phase = "gameOver"
    /\ op = "checkGameOver"
    /\ state.chips < 10
    /\ ~PlaceBet(state, Int_(10)).valid

(***************************************************************************)
(* C31.  Every engine transition (placeBet, dealInitialCards,              *)
(* checkForBlackjack, playerHit, playerStand, playerDouble, playerSplit,   *)
(* splitHit, splitStand, dealerDrawOne, settleRound, checkGameOver) leaves *)
(* its input state value unchanged, the nested deck, hands, split hands    *)
(* and stats included: a caller that keeps the prior state still observes  *)
(* the pre-call values.                                                    *)
(***************************************************************************)
EngineTransitions ==
    {"placeBet", "dealInitialCards", "checkForBlackjack", "playerHit",
     "playerStand", "playerDouble", "playerSplit", "splitHit", "splitStand",
     "dealerDrawOne", "settleRound", "checkGameOver"}

C31_Step == op' \in EngineTransitions => state' = state

Count(cards, card) == Cardinality({ i \in 1..Len(cards) : cards[i] = card })

SameCards(a, b) ==
    /\ Len(a) = Len(b)
    /\ \A i \in 1..Len(a) : Count(a, a[i]) = Count(b, a[i])

OthersKept(changed) ==
    /\ DOMAIN ret = DOMAIN state
    /\ \A field \in DOMAIN state \ changed : ret[field] = state[field]

C33_DealerDraw ==
    op = "dealerDrawOne" =>
        LET card == state.deck[Len(state.deck)]
        IN  /\ ret.deck \o <<card>> = state.deck
            /\ ret.dealerHand = state.dealerHand \o <<card>>
            /\ OthersKept({"deck", "dealerHand"})

\* The dealer drew a third card to a hand below 17.
C33_Witness ==
    /\ op = "dealerDrawOne"
    /\ Len(ret.dealerHand) = 3
    /\ DealerTotal(state) < 17
    /\ ret.dealerHand[3] = state.deck[Len(state.deck)]
    /\ ret.dealerHand[3] # state.deck[1]

(***************************************************************************)
(* C34.  playerStand changes only the phase, to dealerTurn: deck,          *)
(* playerHand, dealerHand, chips, bet, result, reshuffled and stats are    *)
(* all unchanged.                                                          *)
(***************************************************************************)
C34_PlayerStand ==
    op = "playerStand" =>
        /\ ret.phase = "dealerTurn"
        /\ OthersKept({"phase"})

C34_Witness ==
    /\ op = "playerStand"
    /\ state.phase = "playing"
    /\ ret.phase = "dealerTurn"
    /\ PlayerTotal(state) < 21
    /\ ret.playerHand = state.playerHand

(***************************************************************************)
(* C35.  createDeck returns exactly 52 cards, one for each of the 4 suits  *)
(* x 13 ranks with no duplicate (suit, rank) pair, where value is the      *)
(* number for ranks 2..10, 10 for J, Q and K, and 11 for A.                *)
(***************************************************************************)
FourSuits == {"spades", "hearts", "diamonds", "clubs"}

FaceRanks == {"J", "Q", "K"}

ThirteenRanks == { ToString(n) : n \in 2..10 } \cup FaceRanks \cup {"A"}

C35_CreateDeck ==
    op = "createDeck" =>
        /\ Len(ret) = 52
        /\ Cardinality(FourSuits) = 4 /\ Cardinality(ThirteenRanks) = 13
        /\ \A suit \in FourSuits, rank \in ThirteenRanks :
             Cardinality({ i \in 1..Len(ret) :
                             ret[i].suit = suit /\ ret[i].rank = rank }) = 1
        /\ \A i \in 1..Len(ret) :
             /\ \A n \in 2..10 : ret[i].rank = ToString(n) => ret[i].value = n
             /\ ret[i].rank \in FaceRanks => ret[i].value = 10
             /\ ret[i].rank = "A" => ret[i].value = 11

C35_Witness ==
    /\ op = "createDeck"
    /\ Len(ret) = 52
    /\ \E i, j, k \in 1..Len(ret) :
         /\ ret[i] = [suit |-> "clubs", rank |-> "A", value |-> 11]
         /\ ret[j] = [suit |-> "spades", rank |-> "10", value |-> 10]
         /\ ret[k] = [suit |-> "hearts", rank |-> "Q", value |-> 10]

(***************************************************************************)
(* C38.  The dealer plays only when the player has not busted: in a        *)
(* session round dealerDrawOne is applied only if at least one player hand *)
(* is not bust, so when the single hand busts or both split hands bust the *)
(* dealer draws no card.                                                   *)
(***************************************************************************)
\* A hand of the player that is not bust.
SomeHandLives(s) ==
    IF IsSplit(s)
    THEN \E i \in 1..Len(s.splitHands) :
             CalculateHandTotal(s.splitHands[i].cards).total <= 21
    ELSE PlayerTotal(s) <= 21

C38_DealerPlays == op = "dealerDrawOne" => SomeHandLives(state)

\* Both split hands are bust and the dealer has drawn a card.
C38_DrawnAfterBusts ==
    /\ op = "dealerDrawOne"
    /\ IsSplit(state)
    /\ \A i \in 1..Len(state.splitHands) : state.splitHands[i].status = "bust"
    /\ Len(state.dealerHand) > 2

(***************************************************************************)
(* C36.  At the end of every session round (phase result), chips equals    *)
(* the chips held just before that round's bet was placed plus             *)
(* result.chipChange, for every way a round can end: natural (player,      *)
(* dealer or both), bust on hit, bust on double, settlement after stand or *)
(* double, and split settlement.                                           *)
(***************************************************************************)
C36_ChipsBalance ==
    state.phase = "result" =>
        state.chips = chipsBefore + state.result.chipChange

\* A split round ended with both hands won or both lost: the two stakes
\* and the returns add up.
C36_Witness ==
    /\ state.phase = "result"
    /\ IsSplit(state)
    /\ state.result.chipChange \in {2 * state.bet, -2 * state.bet}
    /\ state.splitHands[2].result.chipChange # 0
    /\ state.chips = chipsBefore + state.result.chipChange

(***************************************************************************)
(* C37.  In every reachable session state handsPlayed = handsWon +         *)
(* handsLost + handsPushed and blackjacks <= handsWon: no hand is counted  *)
(* twice (a busted hand is not settled again) and no settled hand is left  *)
(* uncounted.                                                              *)
(***************************************************************************)
\* Nothing is counted in a step that starts from a settled round.
C37_Step == RoundOver(state) => state'.stats = state.stats

C37_Counted ==
    /\ [](/\ state.stats.handsPlayed
               = state.stats.handsWon + state.stats.handsLost + state.stats.handsPushed
          /\ state.stats.blackjacks <= state.stats.handsWon)
    /\ [][C37_Step]_vars

\* A bust was counted once, as a hand lost, and the session went on.
C37_Witness ==
    /\ op = "checkGameOver"
    /\ state.result.outcome = "bust"
    /\ state.stats.handsPlayed = 2
    /\ state.stats.handsLost >= 1
    /\ state.stats.handsPlayed
         = state.stats.handsWon + state.stats.handsLost + state.stats.handsPushed

(***************************************************************************)
(* C39.  In every reachable session state the cards in the deck, the       *)
(* dealer's hand and the player's authoritative hand(s) (playerHand, or    *)
(* the two split hands once a split occurred) are pairwise distinct        *)
(* (suit, rank) cards of one 52-card deck: a drawn card leaves the deck,   *)
(* is held in exactly one hand, and never reappears in the deck until a    *)
(* reshuffle, which happens only while all hands are empty.                *)
(***************************************************************************)
RECURSIVE SplitCards(_)
SplitCards(hands) ==
    IF hands = <<>> THEN <<>> ELSE hands[1].cards \o SplitCards(Tail(hands))

\* The cards in the hands: the dealer's, then the player's.
HeldCards(s) ==
    s.dealerHand \o (IF IsSplit(s) THEN SplitCards(s.splitHands) ELSE s.playerHand)

AllCards(s) == s.deck \o HeldCards(s)

OfOneDeck(cards) ==
    /\ \A i \in 1..Len(cards) : \E k \in 1..Len(CreateDeck) : cards[i] = CreateDeck[k]
    /\ \A i, j \in 1..Len(cards) :
         i # j => cards[i].suit # cards[j].suit \/ cards[i].rank # cards[j].rank

\* The deal of this step replaced the deck.
Reshuffles == op' = "dealInitialCards" /\ Len(state.deck) < 15

C39_Step ==
    IF Reshuffles
    THEN /\ HeldCards(state) = <<>>
         /\ Len(AllCards(state')) = Len(CreateDeck)
    ELSE /\ Len(state'.deck) <= Len(state.deck)
         /\ state'.deck = SubSeq(state.deck, 1, Len(state'.deck))
         /\ ~RoundBegins => CardsOf(AllCards(state')) = CardsOf(AllCards(state))

C39_CardsConserved ==
    /\ [](OfOneDeck(AllCards(state)))
    /\ [][C39_Step]_vars

\* The dealer's hand holds what deck.pop() gave on the empty deck.
C39_NoCard ==
    /\ op = "uncaughtException"
    /\ state.deck = <<>>
    /\ \E i \in 1..Len(state.dealerHand) : state.dealerHand[i] = Undefined

(***************************************************************************)
(* C40.  Every round terminates: from any playing state only finitely many *)
(* hits or split hits can be applied before the phase leaves playing (each *)
(* hit is allowed only below 21 and raises the hand's Ace-low total), the  *)
(* dealer loop ends after finitely many draws, and stand or splitStand is  *)
(* always available while the phase is playing, so a round in which the    *)
(* player keeps acting always reaches phase result.                        *)
(***************************************************************************)
\* A hit is made below 21 (the dealer's below 17) and raises the Ace-low
\* total of the hand it goes to.
C40_Step ==
    /\ op' = "playerHit" =>
         /\ PlayerTotal(state) < 21
         /\ AceLowTotal(state'.playerHand) > AceLowTotal(state.playerHand)
    /\ op' = "splitHit" =>
         LET i == ActivePos(state)
         IN  /\ CalculateHandTotal(state.splitHands[i].cards).total < 21
             /\ AceLowTotal(state'.splitHands[i].cards)
                  > AceLowTotal(state.splitHands[i].cards)
    /\ op' = "dealerDrawOne" =>
         /\ DealerTotal(state) < 17
         /\ AceLowTotal(state'.dealerHand) > AceLowTotal(state.dealerHand)

\* At the key prompt of the player loop the hand can be stood.
StandOffered ==
    pc = "player" /\ state.phase = "playing" =>
        GetAvailableActions(state).stand \/ GetAvailableActions(state).splitStand

C40_RoundEnds ==
    /\ []StandOffered
    /\ [][C40_Step]_vars
    /\ (state.phase = "playing" /\ state.playerHand # <<>>)
         ~> (state.phase = "result")

\* The round stopped short of its result: a draw found the deck empty.
C40_Stopped ==
    /\ pc = "fatal"
    /\ state.phase \in {"playing", "dealerTurn"}
    /\ state.result = NoResult
    /\ state.bet > 0

=============================================================================
